---- MODULE Spec2Model ----
(***************************************************************************)
(* TablePick: the HTML table converter (src/src/core/converter.py).        *)
(*                                                                         *)
(* The document is the tree html.parser hands to convert(): a sequence of  *)
(* nodes in document (pre-)order, each with its tag, its depth and, for a  *)
(* text node, its characters.  Strings are sequences of one-character      *)
(* strings, so that trimming, joining and the regular expressions of       *)
(* _clean_cell_text are computed character by character.                   *)
(*                                                                         *)
(* _clean_cell_text changes the tree it reads (decompose, unwrap); the     *)
(* tree's changed part is state: removed, unwrapped.                       *)
(***************************************************************************)
EXTENDS Integers, Sequences, FiniteSets, TLC

VARIABLES
    doc,        \* the parsed document: Seq of [tag, depth, text]
    pc,         \* position in convert: "parse", "loop", "done"
    removed,    \* nodes destroyed by decompose()
    unwrapped,  \* <a> nodes taken out by unwrap()
    tables,     \* convert's local `tables`: the nodes find_all("table") found
    results,    \* convert's local `results`
    frames,     \* the locals of each completed _convert_single_table call
    outcome,    \* "none", "ok", "NoTableFoundError", "TableConversionError"
    returned,   \* the list convert returned (<<>> until it returns)
    \* to_csv (src/src/core/converter.py)
    csv_pc,     \* position of the caller of to_csv: "idle", "build", "done"
    csv_table,  \* the TableData handed to to_csv: [header, rows]
    lines,      \* to_csv's local `lines`
    csv,        \* the string to_csv returned (<<>> until it returns)
    \* TableOutputWriter.emit (src/src/tablepick/core/output.py)
    emit_pc,    \* position in emit: "idle", "start", "stdout", "files", "loop", "done"
    opt,        \* emit's OutputOptions: [fmt, out_dir, base_name, stdout]
    tables_list,\* emit's local `tables_list`
    fmt,        \* emit's local `fmt`
    base,       \* emit's local `base`
    written,    \* emit's local `written`
    printed,    \* what print() has put on stdout, one entry per call
    dirs,       \* the directories mkdir has made
    files,      \* the files write_text has written, in order: [path, text]
    emit_outcome, \* "none", "ok", "TablePickError"
    \* main (src/src/tablepick/cli/main.py)
    cli_pc,     \* position in main: "idle", "prompt", "parse", "fetch",
                \* "convert", "emit", "return", "except", "done"
    argv,       \* main's local `argv_list`, by option
    completed,  \* the calls of the pipeline that have returned
    raised,     \* the exception main's try block raised: [name, code, at]
    exit_code,  \* what main returned (-1 until it returns)
    \* HtmlFetcher.fetch (src/src/tablepick/core/get_html.py)
    fetch_pc,   \* position in fetch: "idle", "start", "request", "follow",
                \* "loop", "status", "done"
    config,     \* the FetchConfig: [retries, retry_interval, max_redirects]
    caller,     \* who called _request_with_policy: "fetch", "_follow_redirects"
    req_url,    \* _request_with_policy's parameter url
    attempt,    \* _request_with_policy's loop variable
    last_exc,   \* _request_with_policy's local last_exc
    response,   \* the local `response` of fetch and of _follow_redirects
    redirects_followed, \* _follow_redirects' local
    visited,    \* _follow_redirects' local
    log,        \* the calls of requests.get and time.sleep so far
    fetch_outcome \* what fetch did: [name, exc]; name "none" until it ends

converterVars ==
    <<doc, pc, removed, unwrapped, tables, results, frames, outcome, returned>>

csvVars == <<csv_pc, csv_table, lines, csv>>

writerVars ==
    <<emit_pc, opt, tables_list, fmt, base, written, printed, dirs, files,
      emit_outcome>>

cliVars == <<cli_pc, argv, completed, raised, exit_code>>

fetcherVars ==
    <<fetch_pc, config, caller, req_url, attempt, last_exc, response,
      redirects_followed, visited, log, fetch_outcome>>

vars == <<converterVars, csvVars, writerVars, cliVars, fetcherVars>>

\* What a step of one part of the program leaves alone: the other parts.
exceptConverter == <<csvVars, writerVars, cliVars, fetcherVars>>

exceptCsv == <<converterVars, writerVars, cliVars, fetcherVars>>

exceptWriter == <<converterVars, csvVars, cliVars, fetcherVars>>

exceptCli == <<converterVars, csvVars, writerVars, fetcherVars>>

exceptFetcher == <<converterVars, csvVars, writerVars, cliVars>>

(***************************************************************************)
(* Bounds of the model.                                                    *)
(***************************************************************************)
\* Documents are grown node by node up to this many nodes.
MaxNodes == 7
\* A cell of the one-cell table is grown up to this many inline nodes.
MaxInline == 3

(***************************************************************************)
(* Characters and strings.                                                 *)
(***************************************************************************)
\* The characters Python's str.strip() and the pattern \s take as whitespace.
WS == {" ", "\n", "\t"}

\* The characters the pattern \d matches.
Digits == {"0", "1", "2", "3", "4", "5", "6", "7", "8", "9"}

DigitChar == <<"0", "1", "2", "3", "4", "5", "6", "7", "8", "9">>

SetMin(S) == CHOOSE x \in S : \A y \in S : x <= y

SetMax(S) == CHOOSE x \in S : \A y \in S : x >= y

\* str.strip()
strip(s) ==
    LET keep == {i \in 1..Len(s) : s[i] \notin WS}
    IN  IF keep = {} THEN <<>> ELSE SubSeq(s, SetMin(keep), SetMax(keep))

\* sep.join(parts)
RECURSIVE join(_, _)
join(sep, parts) ==
    IF parts = <<>> THEN <<>>
    ELSE IF Len(parts) = 1 THEN parts[1]
    ELSE parts[1] \o sep \o join(sep, Tail(parts))

\* str(i) for i >= 0
RECURSIVE IntToStr(_)
IntToStr(i) ==
    IF i < 10 THEN <<DigitChar[i + 1]>>
    ELSE IntToStr(i \div 10) \o <<DigitChar[(i % 10) + 1]>>

\* f"col{i}"
ColName(i) == <<"c", "o", "l">> \o IntToStr(i)

\* The first index >= i of s whose character is not in C (Len(s)+1 if none).
RECURSIVE SkipWhile(_, _, _)
SkipWhile(s, i, C) ==
    IF i <= Len(s) /\ s[i] \in C THEN SkipWhile(s, i + 1, C) ELSE i

\* The end of the match of \[\s*\d+\s*\] that starts at index i of s, 0 if none.
AnnotMatchEnd(s, i) ==
    IF s[i] # "[" THEN 0
    ELSE LET j == SkipWhile(s, i + 1, WS)
             k == SkipWhile(s, j, Digits)
             l == SkipWhile(s, k, WS)
         IN  IF k > j /\ l <= Len(s) /\ s[l] = "]" THEN l ELSE 0

\* re.sub(r"\[\s*\d+\s*\]", "", s): one left-to-right pass, matches do not overlap.
RECURSIVE SubAnnotFrom(_, _)
SubAnnotFrom(s, i) ==
    IF i > Len(s) THEN <<>>
    ELSE LET e == AnnotMatchEnd(s, i)
         IN  IF e > 0 THEN SubAnnotFrom(s, e + 1)
             ELSE <<s[i]>> \o SubAnnotFrom(s, i + 1)

sub_annotations(s) == SubAnnotFrom(s, 1)

\* re.sub(r"\s+", " ", s): every maximal run of whitespace becomes one space.
RECURSIVE SubSpaceFrom(_, _)
SubSpaceFrom(s, i) ==
    IF i > Len(s) THEN <<>>
    ELSE IF s[i] \in WS THEN <<" ">> \o SubSpaceFrom(s, SkipWhile(s, i, WS))
    ELSE <<s[i]>> \o SubSpaceFrom(s, i + 1)

sub_whitespace(s) == SubSpaceFrom(s, 1)

(***************************************************************************)
(* The document tree.                                                      *)
(***************************************************************************)
Node(tag, depth, text) == [tag |-> tag, depth |-> depth, text |-> text]

Elem(tag, depth) == Node(tag, depth, <<>>)

Text(depth, s) == Node("#text", depth, s)

\* The nodes below node i of d (i = 0: the whole document), mutation aside.
Descendants(d, i) ==
    IF i = 0 THEN 1..Len(d)
    ELSE {j \in (i + 1)..Len(d) : \A m \in (i + 1)..j : d[m].depth > d[i].depth}

\* The tree as _clean_cell_text has changed it so far.
Tree(rem, unw) == [removed |-> rem, unwrapped |-> unw]

\* A set of node indexes as the list in document order.
InOrder(d, S) ==
    LET ids == [i \in 1..Len(d) |-> i]
        In(i) == i \in S
    IN  SelectSeq(ids, In)

\* find_all that looks at the children only (recursive=False).
find_all_children(d, t, i, names) ==
    InOrder(d, {j \in Descendants(d, i) \ (t.removed \cup t.unwrapped) :
                    /\ d[j].tag \in names
                    /\ d[j].depth = (IF i = 0 THEN 1 ELSE d[i].depth + 1)})

\* element.find_all(names): the elements below i, in document order, that are
\* still in the tree.  A destroyed element has no contents left.
find_all(d, t, i, names) ==
    InOrder(d, {j \in Descendants(d, i) \ (t.removed \cup t.unwrapped) :
                    d[j].tag \in names})

\* element.decompose() for each of the elements of list: they and all below go.
decompose_all(d, t, list) ==
    LET gone == UNION {{list[n]} \cup Descendants(d, list[n]) : n \in 1..Len(list)}
    IN  Tree(t.removed \cup gone, t.unwrapped \ gone)

\* element.unwrap() for each of the elements of list: the children stay.
unwrap_all(d, t, list) ==
    Tree(t.removed, t.unwrapped \cup {list[n] : n \in 1..Len(list)})

\* The stripped, non-empty strings below cell i, in document order.
RECURSIVE StrippedStrings(_, _)
StrippedStrings(d, list) ==
    IF list = <<>> THEN <<>>
    ELSE LET s == strip(d[Head(list)].text)
         IN  (IF s = <<>> THEN <<>> ELSE <<s>>) \o StrippedStrings(d, Tail(list))

\* cell.get_text(separator=" ", strip=True)
get_text(d, t, i) ==
    join(<<" ">>, StrippedStrings(d, find_all(d, t, i, {"#text"})))

\* _clean_cell_text from its get_text on: flatten, drop the annotations,
\* normalise the whitespace.
CleanedText(d, t, cell) ==
    [text |-> strip(sub_whitespace(sub_annotations(get_text(d, t, cell)))),
     tree |-> t]

\* The third loop destroying the links instead of unwrapping them.
CleanFromLinksDestroyed(d, t, cell) ==
    CleanedText(d, decompose_all(d, t, find_all(d, t, cell, {"a"})), cell)

\* _clean_cell_text from its third loop on: unwrap the links.
CleanFromLinks(d, t, cell) ==
    CleanedText(d, unwrap_all(d, t, find_all(d, t, cell, {"a"})), cell)

\* _clean_cell_text from its second loop on: destroy the footnote marks.
CleanFromSups(d, t, cell) ==
    CleanFromLinks(d, decompose_all(d, t, find_all(d, t, cell, {"sup"})), cell)

\* _clean_cell_text: the cleaned text and the tree it leaves behind.
_clean_cell_text(d, t, cell) ==
    CleanFromSups(d, decompose_all(d, t, find_all(d, t, cell, {"img"})), cell)

(***************************************************************************)
(* The per-table conversion.                                               *)
(***************************************************************************)
\* _pad_row that pads a short row with one empty string too many.
_pad_row_one_more(row, max_cols) ==
    IF Len(row) < max_cols
    THEN row \o [n \in 1..(max_cols - Len(row) + 1) |-> <<>>]
    ELSE IF Len(row) > max_cols THEN SubSeq(row, 1, max_cols)
    ELSE row

\* _pad_row
_pad_row(row, max_cols) ==
    IF Len(row) < max_cols
    THEN row \o [n \in 1..(max_cols - Len(row)) |-> <<>>]
    ELSE IF Len(row) > max_cols THEN SubSeq(row, 1, max_cols)
    ELSE row

\* _max_columns that takes the first row's length for all.
_max_columns_first(rows) ==
    IF rows = <<>> THEN 0 ELSE Len(rows[1])

\* _max_columns
_max_columns(rows) ==
    IF rows = <<>> THEN 0
    ELSE SetMax({Len(rows[n]) : n \in 1..Len(rows)})

\* The loop of _split_header_and_body without its break.
RECURSIVE HeaderEndNoBreak(_, _, _)
HeaderEndNoBreak(row_is_header, i, header_end) ==
    IF i > Len(row_is_header) THEN header_end
    ELSE HeaderEndNoBreak(row_is_header, i + 1,
                          IF row_is_header[i] THEN i ELSE header_end)

\* The loop of _split_header_and_body: header_end after the rows from index i on.
RECURSIVE HeaderEndFrom(_, _, _)
HeaderEndFrom(row_is_header, i, header_end) ==
    IF i > Len(row_is_header) THEN header_end
    ELSE IF row_is_header[i] THEN HeaderEndFrom(row_is_header, i + 1, i)
    ELSE header_end

\* _split_header_and_body that leaves the last row to the body when every row
\* is a header row.
_split_header_and_body_keeps_body(rows, row_is_header) ==
    LET header_end == HeaderEndFrom(row_is_header, 1, 0)
        cut == IF header_end = Len(rows) /\ header_end > 0
               THEN header_end - 1 ELSE header_end
    IN  [header_rows |-> SubSeq(rows, 1, cut),
         data_rows |-> SubSeq(rows, cut + 1, Len(rows))]

\* _split_header_and_body
_split_header_and_body(rows, row_is_header) ==
    LET header_end == HeaderEndFrom(row_is_header, 1, 0)
    IN  [header_rows |-> SubSeq(rows, 1, header_end),
         data_rows |-> SubSeq(rows, header_end + 1, Len(rows))]

\* The parts of one column in _build_header: the stripped non-empty values of
\* column col (1-based) of the padded header rows, top to bottom.
RECURSIVE HeaderParts(_, _)
HeaderParts(padded_header_rows, col) ==
    IF padded_header_rows = <<>> THEN <<>>
    ELSE LET v == strip(Head(padded_header_rows)[col])
         IN  (IF v = <<>> THEN <<>> ELSE <<v>>)
                 \o HeaderParts(Tail(padded_header_rows), col)

\* The column name with the fallback numbered from 0.
HeaderNameFromZero(padded_header_rows, col) ==
    LET name == strip(join(<<"_">>, HeaderParts(padded_header_rows, col)))
    IN  IF name = <<>> THEN ColName(col - 1) ELSE name

\* The name _build_header gives column col (1-based; col_idx = col - 1).
HeaderName(padded_header_rows, col) ==
    LET name == strip(join(<<"_">>, HeaderParts(padded_header_rows, col)))
    IN  IF name = <<>> THEN ColName(col) ELSE name

\* _build_header without the colN fallback for a column whose name is empty.
_build_header_no_fallback(header_rows, max_cols) ==
    IF header_rows = <<>> THEN [i \in 1..max_cols |-> ColName(i)]
    ELSE [col \in 1..max_cols |->
             strip(join(<<"_">>,
                        HeaderParts([n \in 1..Len(header_rows) |->
                                        _pad_row(header_rows[n], max_cols)], col)))]

\* _build_header
_build_header(header_rows, max_cols) ==
    IF header_rows = <<>> THEN [i \in 1..max_cols |-> ColName(i)]
    ELSE LET padded_header_rows ==
                 [n \in 1..Len(header_rows) |-> _pad_row(header_rows[n], max_cols)]
         IN  [col \in 1..max_cols |-> HeaderName(padded_header_rows, col)]

\* A dict entry that keeps the first value written under a key.
DictSetFirstWins(items, key, value) ==
    IF \E n \in 1..Len(items) : items[n][1] = key
    THEN items
    ELSE Append(items, <<key, value>>)

\* d[key] = value on a dict kept as its items in insertion order.
DictSet(items, key, value) ==
    IF \E n \in 1..Len(items) : items[n][1] = key
    THEN [n \in 1..Len(items) |->
             IF items[n][1] = key THEN <<key, value>> ELSE items[n]]
    ELSE Append(items, <<key, value>>)

\* dict(zip(header, row)): the pairs are entered from the left.
RECURSIVE DictZipFrom(_, _, _, _)
DictZipFrom(header, row, i, items) ==
    IF i > Len(header) \/ i > Len(row) THEN items
    ELSE DictZipFrom(header, row, i + 1, DictSet(items, header[i], row[i]))

dict_zip(header, row) == DictZipFrom(header, row, 1, <<>>)

\* The list comprehension over the cells of one row: each cell is cleaned in
\* turn, on the tree the cells before it left.
RECURSIVE CleanCells(_, _, _, _)
RECURSIVE CleanCellsNext(_, _, _, _)
CleanCells(d, t, cells, values) ==
    IF cells = <<>> THEN [values |-> values, tree |-> t]
    ELSE CleanCellsNext(d, _clean_cell_text(d, t, Head(cells)), Tail(cells), values)

CleanCellsNext(d, c, rest, values) ==
    CleanCells(d, c.tree, rest, Append(values, c.text))

\* The end of one pass of the loop over tr_list: the cleaned row is kept, and
\* tagged a header row when the row (still) holds a th.
KeepRow(d, acc, tr, r) ==
    [raw_rows |-> Append(acc.raw_rows, r.values),
     row_is_header |-> Append(acc.row_is_header,
                              find_all(d, r.tree, tr, {"th"}) # <<>>),
     tree |-> r.tree]

\* What one pass of the loop over tr_list does with a row that has cells.
ReadRow(d, acc, tr, cells) ==
    KeepRow(d, acc, tr, CleanCells(d, acc.tree, cells, <<>>))

\* The pass that keeps a row without cells as an empty row.
RowCellsKeepEmpty(d, acc, tr, cells) == ReadRow(d, acc, tr, cells)

\* One pass of the loop over tr_list: a row without cells is skipped.
RowCells(d, acc, tr, cells) ==
    IF cells = <<>> THEN acc ELSE ReadRow(d, acc, tr, cells)

RowStep(d, acc, tr) ==
    RowCells(d, acc, tr, find_all(d, acc.tree, tr, {"th", "td"}))

RECURSIVE RowLoop(_, _, _)
RowLoop(d, acc, tr_list) ==
    IF tr_list = <<>> THEN acc
    ELSE RowLoop(d, RowStep(d, acc, Head(tr_list)), Tail(tr_list))

\* A TableData
TableData(header, rows, records) ==
    [header |-> header, rows |-> rows, records |-> records]

\* The locals of a _convert_single_table call that returned.
Frame(table, raw_rows, row_is_header, split, max_cols) ==
    [table |-> table,
     raw_rows |-> raw_rows,
     row_is_header |-> row_is_header,
     header_rows |-> split.header_rows,
     data_rows |-> split.data_rows,
     max_cols |-> max_cols]

\* records, and the TableData returned.
WithRecords(header, normalized_rows) ==
    TableData(header, normalized_rows,
              [n \in 1..Len(normalized_rows) |-> dict_zip(header, normalized_rows[n])])

\* _convert_single_table from max_cols on: the check of max_cols, the header,
\* the padded rows.
FromMaxCols(table, raw_rows, row_is_header, split, max_cols) ==
    [err |-> IF max_cols <= 0 THEN "TableConversionError" ELSE "none",
     data |-> WithRecords(
                 _build_header(split.header_rows, max_cols),
                 [n \in 1..Len(split.data_rows) |->
                     _pad_row(split.data_rows[n], max_cols)]),
     frame |-> Frame(table, raw_rows, row_is_header, split, max_cols)]

\* _convert_single_table from the split on.
FromSplit(table, raw_rows, row_is_header, split) ==
    FromMaxCols(table, raw_rows, row_is_header, split,
                _max_columns(split.header_rows \o split.data_rows))

\* The rest of _convert_single_table once the rows are read (it has raised
\* already when raw_rows is empty).
BuildTable(table, raw_rows, row_is_header) ==
    FromSplit(table, raw_rows, row_is_header,
              _split_header_and_body(raw_rows, row_is_header))

NoTable == TableData(<<>>, <<>>, <<>>)

NoFrame(table) ==
    [table |-> table, raw_rows |-> <<>>, row_is_header |-> <<>>,
     header_rows |-> <<>>, data_rows |-> <<>>, max_cols |-> 0]

\* _convert_single_table that returns an empty table where it should raise.
AfterRowsNoRaise(table, read) ==
    IF read.raw_rows = <<>>
    THEN [err |-> "none", data |-> NoTable,
          frame |-> NoFrame(table), tree |-> read.tree]
    ELSE [tree |-> read.tree] @@ BuildTable(table, read.raw_rows, read.row_is_header)

\* _convert_single_table once the loop over tr_list has ended.
AfterRows(table, read) ==
    IF read.raw_rows = <<>>
    THEN [err |-> "TableConversionError", data |-> NoTable,
          frame |-> NoFrame(table), tree |-> read.tree]
    ELSE [tree |-> read.tree] @@ BuildTable(table, read.raw_rows, read.row_is_header)

\* _convert_single_table: the error raised ("none": it returned), the TableData,
\* the locals, and the tree as the cell cleaning left it.
_convert_single_table(d, t, table) ==
    AfterRows(table,
              RowLoop(d, [raw_rows |-> <<>>, row_is_header |-> <<>>, tree |-> t],
                      find_all(d, t, table, {"tr"})))

(***************************************************************************)
(* The documents convert is run on.                                        *)
(***************************************************************************)
\* tests/test_converter.py, test_convert_multi_header_merges_columns
ScenarioB ==
    << Elem("table", 1),
       Elem("tr", 2), Elem("th", 3), Text(4, <<"T", "o", "p">>), Elem("th", 3),
       Elem("tr", 2), Elem("th", 3), Text(4, <<"S", "u", "b", "1">>),
                      Elem("th", 3), Text(4, <<"S", "u", "b", "2">>),
       Elem("tr", 2), Elem("td", 3), Text(4, <<"A">>),
                      Elem("td", 3), Text(4, <<"B">>) >>

\* tests/test_converter.py, test_convert_no_header_defaults_to_col_names
ScenarioC ==
    << Elem("table", 1),
       Elem("tr", 2), Elem("td", 3), Text(4, <<"A">>), Elem("td", 3), Text(4, <<"B">>),
       Elem("tr", 2), Elem("td", 3), Text(4, <<"C">>) >>

\* tests/test_converter.py, test_clean_cell_text_removes_notes_and_links
ScenarioD ==
    << Elem("table", 1),
       Elem("tr", 2), Elem("th", 3), Text(4, <<"H", "1">>),
       Elem("tr", 2), Elem("td", 3),
           Text(4, <<"A", "l", "p", "h", "a">>),
           Elem("sup", 4), Text(5, <<"1">>),
           Text(4, <<" ">>),
           Elem("a", 4), Text(5, <<"L", "i", "n", "k">>),
           Text(4, <<"[", "2", "]">>),
           Elem("br", 4),
           Text(4, <<"B", "e", "t", "a">>) >>

\* A header that names two columns alike, over one body row.
DuplicateHeader ==
    << Elem("table", 1),
       Elem("tr", 2), Elem("th", 3), Text(4, <<"A">>), Elem("th", 3), Text(4, <<"A">>),
                      Elem("th", 3), Text(4, <<"B">>),
       Elem("tr", 2), Elem("td", 3), Text(4, <<"1">>), Elem("td", 3), Text(4, <<"2">>),
                      Elem("td", 3), Text(4, <<"3">>) >>

\* Two header rows with a blank cell, a longer body row, and a row of header
\* cells after it.
LateHeaderRow ==
    << Elem("table", 1),
       Elem("tr", 2), Elem("th", 3), Text(4, <<"A">>), Elem("th", 3),
       Elem("tr", 2), Elem("th", 3), Text(4, <<"B">>),
       Elem("tr", 2), Elem("td", 3), Text(4, <<"x">>), Elem("td", 3), Elem("td", 3),
       Elem("tr", 2), Elem("th", 3), Text(4, <<"C">>) >>

\* The text nodes the grown documents are made of.
DocTexts == {<<"A">>, <<"B">>}

\* The text nodes the grown cell is made of.
CellTexts ==
    {<<"A">>, <<" ">>, <<"\n">>, <<"[">>, <<"1">>, <<"]">>, <<"[", "1", "]">>}

\* What html.parser nests in what, in the documents grown here: rows in
\* tables, cells in rows, text, footnote marks and tables in cells.
DocChildren(tag) ==
    CASE tag = "root" -> {"table", "#text"}
      [] tag = "table" -> {"tr"}
      [] tag = "tr" -> {"td", "th"}
      [] tag \in {"td", "th"} -> {"#text", "sup", "table"}
      [] tag = "sup" -> {"#text", "table"}
      [] OTHER -> {}

\* What is nested in what inside the grown cell.
CellChildren(tag) ==
    CASE tag \in {"td", "th"} -> {"#text", "sup", "a", "img", "br"}
      [] tag \in {"sup", "a"} -> {"#text"}
      [] OTHER -> {}

\* The tag of the node a new node of the given depth would be put under.
ParentTag(d, depth) ==
    IF depth = 1 THEN "root"
    ELSE d[SetMax({i \in 1..Len(d) : d[i].depth = depth - 1})].tag

\* The depths a node appended to d can have.
OpenDepths(d) == IF d = <<>> THEN {1} ELSE 1..(d[Len(d)].depth + 1)

\* to_csv has not been called.
CsvIdle ==
    /\ csv_pc = "idle"
    /\ csv_table = [header |-> <<>>, rows |-> <<>>]
    /\ lines = <<>>
    /\ csv = <<>>

\* Optional[...]: None, or a value.
None == <<>>

Some(x) == <<x>>

\* emit has not been called.
WriterIdle ==
    /\ emit_pc = "idle"
    /\ opt = [fmt |-> <<>>, out_dir |-> None, base_name |-> <<>>, stdout |-> FALSE]
    /\ tables_list = <<>>
    /\ fmt = <<>>
    /\ base = <<>>
    /\ written = <<>>
    /\ printed = <<>>
    /\ dirs = {}
    /\ files = <<>>
    /\ emit_outcome = "none"

\* No exception.
NotRaised == [name |-> "none", code |-> None, at |-> "none"]

\* main has not been called.
CliIdle ==
    /\ cli_pc = "idle"
    /\ argv = [help |-> FALSE, url |-> "absent", format |-> "absent",
               out_dir |-> "absent", filename_base |-> "absent",
               stdout |-> "absent", retries |-> "absent"]
    /\ completed = {}
    /\ raised = NotRaised
    /\ exit_code = -1

\* FetchConfig's default retry_interval; the command line cannot change it.
RetryInterval == 10

\* The locals of fetch before it has set them.
FetcherLocalsUnset ==
    /\ caller = "fetch"
    /\ req_url = 0
    /\ attempt = 0
    /\ last_exc = None
    /\ response = None
    /\ redirects_followed = 0
    /\ visited = {}
    /\ log = <<>>
    /\ fetch_outcome = [name |-> "none", exc |-> None]

\* fetch has not been called.
FetcherIdle ==
    /\ fetch_pc = "idle"
    /\ config = [retries |-> 0, retry_interval |-> RetryInterval, max_redirects |-> 3]
    /\ FetcherLocalsUnset

Start(d) ==
    /\ doc = d
    /\ pc = "parse"
    /\ removed = {}
    /\ unwrapped = {}
    /\ tables = <<>>
    /\ results = <<>>
    /\ frames = <<>>
    /\ outcome = "none"
    /\ returned = <<>>
    /\ CsvIdle
    /\ WriterIdle
    /\ CliIdle
    /\ FetcherIdle

Init ==
    \E d \in {<<>>, ScenarioB, ScenarioC, DuplicateHeader, LateHeaderRow} : Start(d)

\* The parser reads one more element.
ParseElement ==
    /\ pc = "parse"
    /\ Len(doc) < MaxNodes
    /\ \E depth \in OpenDepths(doc) :
         \E tag \in DocChildren(ParentTag(doc, depth)) \ {"#text"} :
            doc' = Append(doc, Elem(tag, depth))
    /\ UNCHANGED <<pc, removed, unwrapped, tables, results, frames, outcome, returned>>
    /\ UNCHANGED exceptConverter

\* The parser reads one more piece of text.
ParseText ==
    /\ pc = "parse"
    /\ Len(doc) < MaxNodes
    /\ \E depth \in OpenDepths(doc) :
         /\ "#text" \in DocChildren(ParentTag(doc, depth))
         /\ \E s \in DocTexts : doc' = Append(doc, Text(depth, s))
    /\ UNCHANGED <<pc, removed, unwrapped, tables, results, frames, outcome, returned>>
    /\ UNCHANGED exceptConverter

\* convert without its check for an empty list of tables.
FindTablesUnchecked ==
    /\ pc = "parse"
    /\ tables' = find_all(doc, Tree(removed, unwrapped), 0, {"table"})
    /\ pc' = "loop"
    /\ UNCHANGED <<doc, removed, unwrapped, results, frames, outcome, returned>>
    /\ UNCHANGED exceptConverter

\* convert, to the start of its loop: find the tables, raise if there is none.
FindTables ==
    /\ pc = "parse"
    /\ tables' = find_all(doc, Tree(removed, unwrapped), 0, {"table"})
    /\ IF tables' = <<>>
       THEN pc' = "done" /\ outcome' = "NoTableFoundError"
       ELSE pc' = "loop" /\ outcome' = "none"
    /\ UNCHANGED <<doc, removed, unwrapped, results, frames, returned>>
    /\ UNCHANGED exceptConverter

\* What one pass of convert's loop does with what _convert_single_table gave.
Converted(r) ==
    /\ removed' = r.tree.removed
    /\ unwrapped' = r.tree.unwrapped
    /\ IF r.err = "none"
       THEN /\ results' = Append(results, r.data)
            /\ frames' = Append(frames, r.frame)
            /\ UNCHANGED <<pc, outcome>>
       ELSE /\ pc' = "done"
            /\ outcome' = r.err
            /\ UNCHANGED <<results, frames>>

\* One pass of convert's loop: convert the next table, append it or raise.
ConvertNext ==
    /\ pc = "loop"
    /\ Len(results) < Len(tables)
    /\ Converted(_convert_single_table(doc, Tree(removed, unwrapped),
                                       tables[Len(results) + 1]))
    /\ UNCHANGED <<doc, tables, returned>>
    /\ UNCHANGED exceptConverter

\* convert returns results.
Return ==
    /\ pc = "loop"
    /\ Len(results) = Len(tables)
    /\ pc' = "done"
    /\ outcome' = "ok"
    /\ returned' = results
    /\ UNCHANGED <<doc, removed, unwrapped, tables, results, frames>>
    /\ UNCHANGED exceptConverter

Next == ParseElement \/ ParseText \/ FindTables \/ ConvertNext \/ Return

Spec == Init /\ [][Next]_vars

(***************************************************************************)
(* The same conversion on one table of one row, whose last cell is grown   *)
(* from text, footnote marks, links, images and line breaks.               *)
(***************************************************************************)
OneCell == << Elem("table", 1), Elem("tr", 2), Elem("td", 3) >>

\* The one-cell table whose cell reads [[1]2]: an annotation inside brackets.
NestedAnnotation == OneCell \o << Text(4, <<"[", "[", "1", "]", "2", "]">>) >>

InitCell == \E d \in {OneCell, ScenarioD, NestedAnnotation} : Start(d)

\* The parser reads one more inline element of the cell.
ParseInlineElement ==
    /\ pc = "parse"
    /\ Len(doc) < Len(OneCell) + MaxInline
    /\ \E depth \in OpenDepths(doc) :
         \E tag \in CellChildren(ParentTag(doc, depth)) \ {"#text"} :
            doc' = Append(doc, Elem(tag, depth))
    /\ UNCHANGED <<pc, removed, unwrapped, tables, results, frames, outcome, returned>>
    /\ UNCHANGED exceptConverter

\* The parser reads one more piece of text of the cell.
ParseInlineText ==
    /\ pc = "parse"
    /\ Len(doc) < Len(OneCell) + MaxInline
    /\ \E depth \in OpenDepths(doc) :
         /\ "#text" \in CellChildren(ParentTag(doc, depth))
         /\ \E s \in CellTexts : doc' = Append(doc, Text(depth, s))
    /\ UNCHANGED <<pc, removed, unwrapped, tables, results, frames, outcome, returned>>
    /\ UNCHANGED exceptConverter

NextCell ==
    ParseInlineElement \/ ParseInlineText \/ FindTables \/ ConvertNext \/ Return

SpecCell == InitCell /\ [][NextCell]_vars

(***************************************************************************)
(* What the claims speak of, read off the document as it was parsed.       *)
(***************************************************************************)
TableNodes == {i \in 1..Len(doc) : doc[i].tag = "table"}

\* The k-th table element in document order.
NthTable(k) == InOrder(doc, TableNodes)[k]

RowsOf(t) == {r \in Descendants(doc, t) : doc[r].tag = "tr"}

CellsOf(r) == {c \in Descendants(doc, r) : doc[c].tag \in {"td", "th"}}

\* The rows of table t that have at least one cell, in document order.
SurvivingRows(t) == InOrder(doc, {r \in RowsOf(t) : CellsOf(r) # {}})

\* A table that yields no row with a cell.
Unusable(t) == \A r \in RowsOf(t) : CellsOf(r) = {}

HeaderTagged(r) == \E c \in Descendants(doc, r) : doc[c].tag = "th"

\* Text node j of cell c lies in an image or a footnote mark of c.
Hidden(c, j) ==
    \E m \in Descendants(doc, c) :
        doc[m].tag \in {"sup", "img"} /\ j \in Descendants(doc, m)

NonEmpty(s) == s # <<>>

\* The trimmed, non-empty text fragments of cell c that are not hidden.
Fragments(c) ==
    LET vis == InOrder(doc, {j \in Descendants(doc, c) :
                                doc[j].tag = "#text" /\ ~Hidden(c, j)})
    IN  SelectSeq([n \in 1..Len(vis) |-> strip(doc[vis[n]].text)], NonEmpty)

\* The cleaned text of cell c according to the cleaning rule.
RefCellText(c) ==
    strip(sub_whitespace(sub_annotations(join(<<" ">>, Fragments(c)))))

RefRow(r) ==
    LET cs == InOrder(doc, CellsOf(r))
    IN  [m \in 1..Len(cs) |-> RefCellText(cs[m])]

\* The cleaned rows of table t: its rows with cells, in document order.
RefRows(t) ==
    LET rs == SurvivingRows(t)
    IN  [n \in 1..Len(rs) |-> RefRow(rs[n])]

Range(f) == {f[n] : n \in DOMAIN f}

(***************************************************************************)
(* C1                                                                      *)
(***************************************************************************)
\* C1: when convert succeeds, every row of every returned table has exactly
\* len(header) entries.
C1_RowLengthIsHeaderLength ==
    outcome = "ok" =>
        \A k \in 1..Len(returned) :
            \A n \in 1..Len(returned[k].rows) :
                Len(returned[k].rows[n]) = Len(returned[k].header)

\* A returned table one of whose source body rows was shorter than the header.
C1_Witness ==
    /\ outcome = "ok"
    /\ \E k \in 1..Len(returned) :
         \E n \in 1..Len(frames[k].data_rows) :
            /\ Len(frames[k].data_rows[n]) < Len(returned[k].header)
            /\ Len(returned[k].rows[n]) = Len(returned[k].header)

(***************************************************************************)
(* C2                                                                      *)
(***************************************************************************)
\* The value a record (its items in insertion order) holds under a key.
Lookup(items, key) == (CHOOSE it \in Range(items) : it[1] = key)[2]

RecordOfRow(items, header, row) ==
    /\ {items[n][1] : n \in 1..Len(items)} = Range(header)
    /\ \A a, b \in 1..Len(items) : items[a][1] = items[b][1] => a = b
    /\ \A name \in Range(header) :
         Lookup(items, name) =
            row[SetMax({j \in 1..Len(header) : header[j] = name})]

\* C2: every returned table has one record per row; the keys of records[i] are
\* exactly the names in header, and the value under a name is rows[i][j] for the
\* largest j with header[j] = name.
C2_RecordsMirrorRows ==
    outcome = "ok" =>
        \A k \in 1..Len(returned) :
            /\ Len(returned[k].records) = Len(returned[k].rows)
            /\ \A n \in 1..Len(returned[k].rows) :
                 RecordOfRow(returned[k].records[n], returned[k].header,
                             returned[k].rows[n])

\* A returned table whose header names two columns alike, with a row that holds
\* different values in them.
C2_Witness ==
    /\ outcome = "ok"
    /\ \E k \in 1..Len(returned) :
         \E i, j \in 1..Len(returned[k].header) :
            /\ i < j
            /\ returned[k].header[i] = returned[k].header[j]
            /\ \E n \in 1..Len(returned[k].rows) :
                 /\ returned[k].rows[n][i] # returned[k].rows[n][j]
                 /\ Lookup(returned[k].records[n], returned[k].header[i])
                        = returned[k].rows[n][j]

(***************************************************************************)
(* C3                                                                      *)
(***************************************************************************)
\* C3: on a document without any table element, convert raises
\* NoTableFoundError and returns nothing.
C3_NoTableRaises ==
    (pc # "parse" /\ TableNodes = {}) =>
        /\ pc = "done"
        /\ outcome = "NoTableFoundError"
        /\ results = <<>>
        /\ returned = <<>>

\* convert has ended on a document that holds text and no table.
C3_Witness ==
    /\ pc = "done"
    /\ doc # <<>>
    /\ TableNodes = {}
    /\ outcome = "NoTableFoundError"

(***************************************************************************)
(* C4                                                                      *)
(***************************************************************************)
\* C4: if some table element yields no row with a cell, the call fails with
\* TableConversionError wherever that table stands; and a call that has ended
\* has returned one table per table element or nothing at all.
C4_AllOrNothing ==
    pc = "done" =>
        /\ (\E t \in TableNodes : Unusable(t)) =>
               outcome = "TableConversionError" /\ returned = <<>>
        /\ \/ outcome = "ok" /\ Len(returned) = Cardinality(TableNodes)
           \/ outcome # "ok" /\ returned = <<>>

\* The call failed on a table without usable rows after it had converted
\* another table that has some.
C4_Witness ==
    /\ pc = "done"
    /\ outcome = "TableConversionError"
    /\ Len(frames) >= 1
    /\ \E t \in TableNodes : Unusable(t)
    /\ \E t \in TableNodes : ~Unusable(t)
    /\ returned = <<>>

(***************************************************************************)
(* C5                                                                      *)
(***************************************************************************)
\* C5: when convert succeeds it returns one table per table element, nested
\* ones included, and the k-th is the conversion of the k-th table element in
\* document order: it was read from that element's rows.
C5_OneTablePerElementInOrder ==
    outcome = "ok" =>
        /\ Len(returned) = Cardinality(TableNodes)
        /\ Len(frames) = Len(returned)
        /\ \A k \in 1..Len(returned) :
             /\ frames[k].table = NthTable(k)
             /\ frames[k].raw_rows = RefRows(NthTable(k))
             /\ Len(returned[k].rows) + Len(frames[k].header_rows)
                    = Len(RefRows(NthTable(k)))

\* A successful call on a document with a table nested in a cell of another.
C5_Witness ==
    /\ outcome = "ok"
    /\ Len(returned) >= 2
    /\ \E t, u \in TableNodes : u \in Descendants(doc, t)

(***************************************************************************)
(* C6                                                                      *)
(***************************************************************************)
\* Whether each row of table t that has a cell holds a header-style cell.
RefFlags(t) ==
    LET rs == SurvivingRows(t)
    IN  [n \in 1..Len(rs) |-> HeaderTagged(rs[n])]

\* h is the length of the maximal all-TRUE prefix of flags.
IsHeaderBlockLength(flags, h) ==
    /\ h \in 0..Len(flags)
    /\ \A n \in 1..h : flags[n]
    /\ h = Len(flags) \/ ~flags[h + 1]

\* C6: the header block is the maximal prefix of the surviving rows that are
\* all header-tagged; every row from the first other row on is a body row, in
\* document order, header-tagged or not.
C6_HeaderBlockIsMaximalPrefix ==
    outcome = "ok" =>
        \A k \in 1..Len(frames) :
            /\ frames[k].row_is_header = RefFlags(frames[k].table)
            /\ IsHeaderBlockLength(RefFlags(frames[k].table),
                                   Len(frames[k].header_rows))
            /\ frames[k].header_rows \o frames[k].data_rows
                   = RefRows(frames[k].table)
            /\ Len(returned[k].rows) = Len(frames[k].data_rows)

\* A returned table with a header row, then a body row, then a header-tagged
\* row that became a body row.
C6_Witness ==
    /\ outcome = "ok"
    /\ \E k \in 1..Len(frames) :
         \E a, b, c \in 1..Len(frames[k].row_is_header) :
            /\ a < b /\ b < c
            /\ frames[k].row_is_header[a]
            /\ ~frames[k].row_is_header[b]
            /\ frames[k].row_is_header[c]
            /\ Len(frames[k].header_rows) < b
            /\ Len(returned[k].rows) >= 2

(***************************************************************************)
(* C7                                                                      *)
(***************************************************************************)
\* The trimmed non-empty texts at column c of the rows, top to bottom.
ColumnTexts(rows, c) ==
    LET having == SelectSeq([n \in 1..Len(rows) |->
                                IF c <= Len(rows[n]) THEN strip(rows[n][c]) ELSE <<>>],
                            NonEmpty)
    IN  having

\* The name of column c (1-based) the header rule gives.
RefHeaderName(header_rows, c) ==
    IF ColumnTexts(header_rows, c) = <<>>
    THEN <<"c", "o", "l">> \o IntToStr(c)
    ELSE join(<<"_">>, ColumnTexts(header_rows, c))

\* C7: for every column c below maxCols, header[c] is the '_'-join, top to
\* bottom, of the trimmed non-empty texts at column c of the header-block rows,
\* and col{c+1} (c counted from 0) when there is none.
C7_HeaderNames ==
    outcome = "ok" =>
        \A k \in 1..Len(frames) :
            /\ Len(returned[k].header) = frames[k].max_cols
            /\ \A c \in 1..frames[k].max_cols :
                 returned[k].header[c] = RefHeaderName(frames[k].header_rows, c)

\* A returned table with a header block in which one column joins two texts
\* and another column has no text.
C7_Witness ==
    /\ outcome = "ok"
    /\ \E k \in 1..Len(frames) :
         /\ frames[k].header_rows # <<>>
         /\ \E c \in 1..frames[k].max_cols :
              /\ Len(ColumnTexts(frames[k].header_rows, c)) >= 2
              /\ \E u \in 1..Len(returned[k].header[c]) :
                    returned[k].header[c][u] = "_"
         /\ \E c \in 1..frames[k].max_cols :
              /\ ColumnTexts(frames[k].header_rows, c) = <<>>
              /\ returned[k].header[c] = <<"c", "o", "l">> \o IntToStr(c)

\* A returned table without header block: header = col1..col{maxCols}.
C7_WitnessNoHeader ==
    /\ outcome = "ok"
    /\ \E k \in 1..Len(frames) :
         /\ frames[k].header_rows = <<>>
         /\ frames[k].max_cols >= 2

(***************************************************************************)
(* C8                                                                      *)
(***************************************************************************)
\* row is src followed by empty strings up to length n.
IsPadded(row, src, n) ==
    /\ Len(row) = n
    /\ Len(src) <= n
    /\ \A j \in 1..n : row[j] = (IF j <= Len(src) THEN src[j] ELSE <<>>)

\* C8: maxCols is the largest cell count over header-block and body rows
\* together, and every output row is the cleaned cells of its source row
\* followed by maxCols - len(source row) empty strings.
C8_MaxColsAndPadding ==
    outcome = "ok" =>
        \A k \in 1..Len(frames) :
            /\ \A n \in 1..Len(frames[k].raw_rows) :
                 Len(frames[k].raw_rows[n]) <= frames[k].max_cols
            /\ \E n \in 1..Len(frames[k].raw_rows) :
                 Len(frames[k].raw_rows[n]) = frames[k].max_cols
            /\ Len(returned[k].rows) = Len(frames[k].data_rows)
            /\ \A n \in 1..Len(returned[k].rows) :
                 /\ frames[k].data_rows[n]
                        = RefRows(frames[k].table)[Len(frames[k].header_rows) + n]
                 /\ IsPadded(returned[k].rows[n], frames[k].data_rows[n],
                             frames[k].max_cols)

\* A returned table whose longest row is a header row and one of whose body
\* rows was padded.
C8_Witness ==
    /\ outcome = "ok"
    /\ \E k \in 1..Len(frames) :
         /\ \A n \in 1..Len(frames[k].data_rows) :
              Len(frames[k].data_rows[n]) < frames[k].max_cols
         /\ \E n \in 1..Len(returned[k].rows) :
              /\ frames[k].data_rows[n] # <<>>
              /\ returned[k].rows[n][frames[k].max_cols] = <<>>

(***************************************************************************)
(* C9                                                                      *)
(***************************************************************************)
\* The rows of t with a cell such that they and all such rows before them are
\* header-tagged: rows without cells between them do not count.
HeaderBlockRows(t) ==
    {r \in RowsOf(t) :
        /\ CellsOf(r) # {}
        /\ \A q \in RowsOf(t) : (q <= r /\ CellsOf(q) # {}) => HeaderTagged(q)}

\* C9: a row element without cells is dropped before anything else: it gives no
\* output row, does not count for maxCols and does not end the header block.
C9_EmptyRowsDropped ==
    outcome = "ok" =>
        \A k \in 1..Len(frames) :
            /\ Len(frames[k].raw_rows)
                   = Cardinality({r \in RowsOf(frames[k].table) : CellsOf(r) # {}})
            /\ \A n \in 1..Len(frames[k].raw_rows) : frames[k].raw_rows[n] # <<>>
            /\ frames[k].max_cols >= 1
            /\ Len(frames[k].header_rows)
                   = Cardinality(HeaderBlockRows(frames[k].table))
            /\ Len(returned[k].rows)
                   = Cardinality({r \in RowsOf(frames[k].table) : CellsOf(r) # {}})
                         - Cardinality(HeaderBlockRows(frames[k].table))

\* A returned table with a row without cells between two header-tagged rows,
\* both of which are in the header block.
C9_Witness ==
    /\ outcome = "ok"
    /\ \E k \in 1..Len(frames) :
         \E a, b, c \in RowsOf(frames[k].table) :
            /\ a < b /\ b < c
            /\ CellsOf(b) = {}
            /\ {a, c} \subseteq HeaderBlockRows(frames[k].table)
            /\ Len(frames[k].header_rows) >= 2

(***************************************************************************)
(* C10                                                                     *)
(***************************************************************************)
\* s has no whitespace but single inner spaces.
IsNormalised(s) ==
    /\ \A i \in 1..Len(s) : s[i] \in WS => s[i] = " "
    /\ s # <<>> => s[1] # " " /\ s[Len(s)] # " "
    /\ \A i \in 1..(Len(s) - 1) : ~(s[i] = " " /\ s[i + 1] = " ")

AlphaLinkBeta ==
    <<"A", "l", "p", "h", "a", " ", "L", "i", "n", "k", " ", "B", "e", "t", "a">>

\* C10: the cleaned text of a cell is made of the cell's text fragments in
\* order: those in images and footnote marks left out, those in links kept, the
\* fragments joined by one space, bracketed numbers removed, whitespace runs
\* collapsed to one space and trimmed; the cell of the test cleans to
\* "Alpha Link Beta".
C10_CleanedCellText ==
    outcome = "ok" =>
        /\ \A k \in 1..Len(frames) :
             LET rs == SurvivingRows(frames[k].table)
             IN  /\ Len(frames[k].raw_rows) = Len(rs)
                 /\ \A n \in 1..Len(rs) :
                      LET cs == InOrder(doc, CellsOf(rs[n]))
                      IN  /\ Len(frames[k].raw_rows[n]) = Len(cs)
                          /\ \A m \in 1..Len(cs) :
                               /\ frames[k].raw_rows[n][m] = RefCellText(cs[m])
                               /\ IsNormalised(frames[k].raw_rows[n][m])
        /\ doc = ScenarioD => returned[1].rows = << <<AlphaLinkBeta>> >>

\* The cell of the test has been cleaned.
C10_Witness ==
    /\ outcome = "ok"
    /\ doc = ScenarioD
    /\ returned[1].rows = << <<AlphaLinkBeta>> >>

(***************************************************************************)
(* to_csv (src/src/core/converter.py): the table it is handed is built     *)
(* value by value and character by character, then serialized.             *)
(***************************************************************************)
\* The values and characters of a table handed to to_csv, together.
MaxCsvInput == 7

\* The characters of the values: a plain one and the four escape_csv looks for.
CsvChars == {"a", ",", "\"", "\n", "\r"}

\* `c in value`
Contains(value, c) == \E i \in 1..Len(value) : value[i] = c

\* value.replace('"', '""')
RECURSIVE replace_quotes(_)
replace_quotes(value) ==
    IF value = <<>> THEN <<>>
    ELSE IF Head(value) = "\"" THEN <<"\"", "\"">> \o replace_quotes(Tail(value))
    ELSE <<Head(value)>> \o replace_quotes(Tail(value))

\* needs_quote that does not look for a carriage return.
needs_quote_no_cr(value) ==
    Contains(value, ",") \/ Contains(value, "\n") \/ Contains(value, "\"")

\* escape_csv's local needs_quote.
needs_quote(value) ==
    \/ Contains(value, ",")
    \/ Contains(value, "\n")
    \/ Contains(value, "\"")
    \/ Contains(value, "\r")

\* escape_csv after needs_quote is computed: double the quotes, wrap if needed.
EscapeDoubled(value, quote) ==
    IF quote THEN <<"\"">> \o value \o <<"\"">> ELSE value

escape_csv(value) ==
    EscapeDoubled(IF Contains(value, "\"") THEN replace_quotes(value) ELSE value,
                  needs_quote(value))

\* ",".join(escape_csv(v) for v in row)
csv_line(row) == join(<<",">>, [i \in 1..Len(row) |-> escape_csv(row[i])])

\* to_csv's `lines` with a line feed after every line.
csv_lines_terminated(t) ==
    <<csv_line(t.header)>>
        \o [i \in 1..Len(t.rows) |-> csv_line(t.rows[i])] \o << <<>> >>

\* to_csv's `lines` when it is about to return.
csv_lines(t) ==
    <<csv_line(t.header)>> \o [i \in 1..Len(t.rows) |-> csv_line(t.rows[i])]

\* "\n".join(lines)
to_csv(t) == join(<<"\n">>, csv_lines(t))

\* The number of values of the rows, and the number of their characters.
RECURSIVE SumLen(_)
SumLen(seqs) == IF seqs = <<>> THEN 0 ELSE Len(Head(seqs)) + SumLen(Tail(seqs))

RowsOfTable(t) == <<t.header>> \o t.rows

RECURSIVE SumChars(_)
SumChars(rows) ==
    IF rows = <<>> THEN 0 ELSE SumLen(Head(rows)) + SumChars(Tail(rows))

InputSize(t) == SumLen(RowsOfTable(t)) + SumChars(RowsOfTable(t))

\* The table with its last row replaced.
WithLastRow(t, row) ==
    IF t.rows = <<>> THEN [t EXCEPT !.header = row]
    ELSE [t EXCEPT !.rows[Len(t.rows)] = row]

LastRow(t) == IF t.rows = <<>> THEN t.header ELSE t.rows[Len(t.rows)]

\* Every row has as many values as the header (TableData, as convert builds it).
LastRowComplete(t) == Len(LastRow(t)) = Len(t.header)

ConverterIdle ==
    /\ doc = <<>>
    /\ pc = "idle"
    /\ removed = {}
    /\ unwrapped = {}
    /\ tables = <<>>
    /\ results = <<>>
    /\ frames = <<>>
    /\ outcome = "none"
    /\ returned = <<>>

\* A table of one column whose name is still empty.
InitCsv ==
    /\ ConverterIdle
    /\ WriterIdle
    /\ CliIdle
    /\ FetcherIdle
    /\ csv_pc = "build"
    /\ csv_table = [header |-> << <<>> >>, rows |-> <<>>]
    /\ lines = <<>>
    /\ csv = <<>>

\* One more character of the last value.
TypeChar ==
    /\ csv_pc = "build"
    /\ InputSize(csv_table) < MaxCsvInput
    /\ \E c \in CsvChars :
         csv_table' = WithLastRow(csv_table,
                     [LastRow(csv_table) EXCEPT ![Len(LastRow(csv_table))] = @ \o <<c>>])
    /\ UNCHANGED <<csv_pc, lines, csv>>
    /\ UNCHANGED exceptCsv

\* One more value in the last row.
NextValue ==
    /\ csv_pc = "build"
    /\ InputSize(csv_table) < MaxCsvInput
    /\ csv_table.rows = <<>> \/ ~LastRowComplete(csv_table)
    /\ csv_table' = WithLastRow(csv_table, Append(LastRow(csv_table), <<>>))
    /\ UNCHANGED <<csv_pc, lines, csv>>
    /\ UNCHANGED exceptCsv

\* One more row.
NextRow ==
    /\ csv_pc = "build"
    /\ InputSize(csv_table) < MaxCsvInput
    /\ LastRowComplete(csv_table)
    /\ csv_table' = [csv_table EXCEPT !.rows = Append(@, << <<>> >>)]
    /\ UNCHANGED <<csv_pc, lines, csv>>
    /\ UNCHANGED exceptCsv

\* to_csv(table)
ToCsv ==
    /\ csv_pc = "build"
    /\ LastRowComplete(csv_table)
    /\ lines' = csv_lines(csv_table)
    /\ csv' = to_csv(csv_table)
    /\ csv_pc' = "done"
    /\ UNCHANGED csv_table
    /\ UNCHANGED exceptCsv

NextCsv == TypeChar \/ NextValue \/ NextRow \/ ToCsv

SpecCsv == InitCsv /\ [][NextCsv]_vars

(***************************************************************************)
(* What the claims about to_csv speak of.                                  *)
(***************************************************************************)
\* A value with each of its double quotes written twice, from its end.
RECURSIVE QuotesTwice(_)
QuotesTwice(v) ==
    IF v = <<>> THEN <<>>
    ELSE QuotesTwice(SubSeq(v, 1, Len(v) - 1))
            \o (IF v[Len(v)] = "\"" THEN <<"\"", "\"">> ELSE <<v[Len(v)]>>)

HasSpecial(v) == \E i \in 1..Len(v) : v[i] \in {",", "\"", "\r", "\n"}

\* The way the claim says a value is written.
WrittenValue(v) ==
    IF HasSpecial(v) THEN <<"\"">> \o QuotesTwice(v) \o <<"\"">> ELSE v

\* The k-th smallest member of a set of numbers.
Nth(P, k) == CHOOSE p \in P : Cardinality({q \in P : q < p}) = k - 1

\* s cut at the positions P (the characters at P are dropped).
SplitAt(s, P) ==
    [k \in 1..(Cardinality(P) + 1) |->
        SubSeq(s,
               IF k = 1 THEN 1 ELSE Nth(P, k - 1) + 1,
               IF k = Cardinality(P) + 1 THEN Len(s) ELSE Nth(P, k) - 1)]

\* The positions of the character c in s.
AllAt(s, c) == {i \in 1..Len(s) : s[i] = c}

\* The positions of c in s that are outside double quotes: an even number of
\* double quotes comes before them.
UnquotedAt(s, c) ==
    {i \in AllAt(s, c) : Cardinality({j \in 1..(i - 1) : s[j] = "\""}) % 2 = 0}

\* "" read back as " from the left.
RECURSIVE QuotesOnce(_)
QuotesOnce(w) ==
    IF w = <<>> THEN <<>>
    ELSE IF Len(w) >= 2 /\ w[1] = "\"" /\ w[2] = "\""
         THEN <<"\"">> \o QuotesOnce(SubSeq(w, 3, Len(w)))
    ELSE <<w[1]>> \o QuotesOnce(Tail(w))

\* The quoting of one written value undone.
Unquoted(w) ==
    IF Len(w) >= 2 /\ w[1] = "\"" /\ w[Len(w)] = "\""
    THEN QuotesOnce(SubSeq(w, 2, Len(w) - 1))
    ELSE w

\* One line split on its unescaped commas, the quoting undone.
ReadLine(line) ==
    LET fields == SplitAt(line, UnquotedAt(line, ","))
    IN  [k \in 1..Len(fields) |-> Unquoted(fields[k])]

ReadLines(ls) == [k \in 1..Len(ls) |-> ReadLine(ls[k])]

\* C11: to_csv writes a value wrapped in double quotes, its double quotes
\* doubled, if and only if the value has a comma, a double quote, a carriage
\* return or a line feed, and unchanged otherwise: every line of the output
\* is the values of its row written that way and joined by commas.
C11_QuotedIffSpecial ==
    csv_pc = "done" =>
        /\ Len(lines) = 1 + Len(csv_table.rows)
        /\ \A r \in 1..Len(lines) :
              lines[r] = join(<<",">>,
                              [i \in 1..Len(RowsOfTable(csv_table)[r]) |->
                                  WrittenValue(RowsOfTable(csv_table)[r][i])])
        /\ csv = join(<<"\n">>, lines)

\* A table with a value a, and a value " has been written: "a," and """".
C11_Witness ==
    /\ csv_pc = "done"
    /\ csv_table = [header |-> << <<"a", ",">> >>, rows |-> << << <<"\"">> >> >>]
    /\ csv = <<"\"", "a", ",", "\"", "\n", "\"", "\"", "\"", "\"">>

\* C12 as stated: the output split on every line feed, each line then split
\* on its unescaped commas and unquoted, is the header followed by the rows,
\* and the output has 1 + len(rows) lines.
C12_SplitOnEveryLineFeed ==
    csv_pc = "done" =>
        /\ ReadLines(SplitAt(csv, AllAt(csv, "\n")))
              = RowsOfTable(csv_table)
        /\ Len(SplitAt(csv, AllAt(csv, "\n"))) = 1 + Len(csv_table.rows)

\* C12, amended: the output split on the line feeds that are outside quoted
\* values, each line then split on its unescaped commas and unquoted, is the
\* header followed by the rows; there are 1 + len(rows) such lines, joined by
\* a line feed, and nothing follows the last one.
C12_RoundTrip ==
    csv_pc = "done" =>
        /\ ReadLines(SplitAt(csv, UnquotedAt(csv, "\n")))
              = RowsOfTable(csv_table)
        /\ Len(SplitAt(csv, UnquotedAt(csv, "\n"))) = 1 + Len(csv_table.rows)
        /\ SplitAt(csv, UnquotedAt(csv, "\n")) = lines

\* A table of two columns and a row, with a line feed, a comma and a double
\* quote among its values, has been written.
C12_Witness ==
    /\ csv_pc = "done"
    /\ Len(csv_table.header) = 2
    /\ Len(csv_table.rows) = 1
    /\ \E i \in 1..2 : Contains(csv_table.rows[1][i], "\n")
    /\ \E i \in 1..2 : Contains(csv_table.header[i], ",")
    /\ \E i \in 1..2 : Contains(csv_table.rows[1][i], "\"")

(***************************************************************************)
(* TableOutputWriter.emit (src/src/tablepick/core/output.py).              *)
(***************************************************************************)
\* emit is handed up to this many tables.
MaxEmitTables == 10

UpperCase ==
    <<"A", "B", "C", "D", "E", "F", "G", "H", "I", "J", "K", "L", "M",
      "N", "O", "P", "Q", "R", "S", "T", "U", "V", "W", "X", "Y", "Z">>

LowerCase ==
    <<"a", "b", "c", "d", "e", "f", "g", "h", "i", "j", "k", "l", "m",
      "n", "o", "p", "q", "r", "s", "t", "u", "v", "w", "x", "y", "z">>

LowerChar(c) ==
    IF \E n \in 1..Len(UpperCase) : UpperCase[n] = c
    THEN LowerCase[CHOOSE n \in 1..Len(UpperCase) : UpperCase[n] = c]
    ELSE c

\* str.lower()
lower(s) == [i \in 1..Len(s) |-> LowerChar(s[i])]

\* str.strip(chars)
strip_chars(s, C) ==
    LET keep == {i \in 1..Len(s) : s[i] \notin C}
    IN  IF keep = {} THEN <<>> ELSE SubSeq(s, SetMin(keep), SetMax(keep))

\* re.sub("[C]+", rep, s): every maximal run of characters of C becomes rep.
RECURSIVE SubRunsFrom(_, _, _, _)
SubRunsFrom(s, i, C, rep) ==
    IF i > Len(s) THEN <<>>
    ELSE IF s[i] \in C THEN rep \o SubRunsFrom(s, SkipWhile(s, i, C), C, rep)
    ELSE <<s[i]>> \o SubRunsFrom(s, i + 1, C, rep)

sub_runs(s, C, rep) == SubRunsFrom(s, 1, C, rep)

\* The characters of the pattern [<>:"/\\|?*].
Dangerous == {"<", ">", ":", "\"", "/", "\\", "|", "?", "*"}

tablepick == <<"t", "a", "b", "l", "e", "p", "i", "c", "k">>

\* `s or "tablepick"`
OrTablepick(s) == IF s = <<>> THEN tablepick ELSE s

\* _sanitize_stem that keeps the whitespace.
SanitizeStrippedKeepSpace(s) ==
    OrTablepick(
        sub_runs(strip_chars(sub_runs(s, Dangerous, <<"_">>), {" ", "."}),
                 {"_"}, <<"_">>))

\* _sanitize_stem from its second statement on, s being stripped.
SanitizeStripped(s) ==
    OrTablepick(
        sub_runs(
            strip_chars(
                sub_runs(sub_runs(s, Dangerous, <<"_">>), WS, <<"_">>),
                {" ", "."}),
            {"_"}, <<"_">>))

_sanitize_stem(s) == SanitizeStripped(strip(s))

\* _normalize_format's local f.
NormalizedFormat(f) == lower(strip(f))

Formats == {<<"c", "s", "v">>, <<"j", "s", "o", "n">>}

\* f"{idx:02d}"
Pad02(digits) == IF Len(digits) < 2 THEN <<"0">> \o digits ELSE digits

idx02d(idx) == Pad02(IntToStr(idx))

\* f"{base}_table{idx:02d}.{fmt}"
FileName(b, idx, f) == b \o <<"_", "t", "a", "b", "l", "e">> \o idx02d(idx) \o <<".">> \o f

\* out_dir / filename
PathJoin(dir, filename) == dir \o <<"/">> \o filename

\* json's encoding of one character of a string (ensure_ascii=False).
JsonChar(c) ==
    CASE c = "\"" -> <<"\\", "\"">>
      [] c = "\\" -> <<"\\", "\\">>
      [] c = "\n" -> <<"\\", "n">>
      [] c = "\r" -> <<"\\", "r">>
      [] c = "\t" -> <<"\\", "t">>
      [] OTHER -> <<c>>

RECURSIVE JsonChars(_)
JsonChars(str) ==
    IF str = <<>> THEN <<>> ELSE JsonChar(Head(str)) \o JsonChars(Tail(str))

JsonString(str) == <<"\"">> \o JsonChars(str) \o <<"\"">>

\* json.dumps of one record, indent=None: the items joined by ", ".
JsonObject(items) ==
    <<"{">>
        \o join(<<",", " ">>,
                [n \in 1..Len(items) |->
                    JsonString(items[n][1]) \o <<":", " ">>
                        \o JsonString(items[n][2])])
        \o <<"}">>

\* json.dumps of the records with "," alone between the objects.
to_json_tight(t) ==
    <<"[">>
        \o join(<<",">>, [n \in 1..Len(t.records) |-> JsonObject(t.records[n])])
        \o <<"]">>

\* json.dumps(table.records, ensure_ascii=False, indent=None)
to_json(t) ==
    <<"[">>
        \o join(<<",", " ">>, [n \in 1..Len(t.records) |-> JsonObject(t.records[n])])
        \o <<"]">>

\* _serialize
_serialize(t, f) == IF f = <<"c", "s", "v">> THEN to_csv(t) ELSE to_json(t)

\* text.endswith("\n")
EndsWithLF(text) == text # <<>> /\ text[Len(text)] = "\n"

\* _write_text that appends a line feed to every text.
_write_text_always(path, text) == [path |-> path, text |-> text \o <<"\n">>]

\* _write_text: the file it leaves.
_write_text(path, text) ==
    [path |-> path, text |-> IF EndsWithLF(text) THEN text ELSE text \o <<"\n">>]

\* A TableData as convert builds it from a header and rows.
MakeTable(header, rows) ==
    TableData(header, rows, [n \in 1..Len(rows) |-> dict_zip(header, rows[n])])

\* The tables emit is handed: those of the tests, one whose only row is an
\* empty value, one of two columns, and one of two columns and two rows
\* whose values hold a space, a double quote and a line feed.
EmitTables ==
    << MakeTable(<< <<"H">> >>, << << <<"V">> >> >>),
       MakeTable(<< <<"a">> >>, << << <<>> >> >>),
       MakeTable(<< <<"a">>, <<"b">> >>, << << <<"1">>, <<"x", ",", "y">> >> >>),
       MakeTable(<< <<"a">>, <<"b">> >>,
                 << << <<"x", " ", "y">>, <<"\"">> >>, << <<"\n">>, <<"2">> >> >>) >>

\* n tables, taken in turn from EmitTables, starting after the first `from`.
TablesFrom(from, n) ==
    [i \in 1..n |-> EmitTables[((from + i - 1) % Len(EmitTables)) + 1]]

\* The values of opt.fmt.
FormatInputs ==
    {<<"c", "s", "v">>, <<"j", "s", "o", "n">>, <<"C", "S", "V">>, <<" ", "c", "s", "v", "\n">>, <<"J", "s", "o", "n">>, <<"m", "d">>, <<>>}

\* The values of opt.base_name.
BaseNames ==
    {<<"m", "y", " ", "t", "a", "b", "l", "e">>, <<" ", "x">>, <<"a", "/", "b">>, <<".", ".">>, <<"a", " ", "_", "b">>, <<"a", ":", "\t", " ", "b", ".">>, <<"b", "a", "s", "e">>, <<>>}

\* The values of opt.out_dir.
OutDirs == {None, Some(<<"o">>)}

InitEmit ==
    /\ ConverterIdle
    /\ CsvIdle
    /\ CliIdle
    /\ FetcherIdle
    /\ emit_pc = "start"
    /\ opt \in [fmt : FormatInputs, out_dir : OutDirs, base_name : BaseNames,
                stdout : BOOLEAN]
    /\ \E n \in 0..MaxEmitTables : \E from \in 0..(Len(EmitTables) - 1) :
          tables_list = TablesFrom(from, n)
    /\ fmt = <<>>
    /\ base = <<>>
    /\ written = <<>>
    /\ printed = <<>>
    /\ dirs = {}
    /\ files = <<>>
    /\ emit_outcome = "none"

\* Whether emit raises before it writes anything, the empty list aside.
EmitRaisesOnFormat(tl, f) == NormalizedFormat(f) \notin Formats

\* Whether emit raises before it writes anything.
EmitRaises(tl, f) == tl = <<>> \/ NormalizedFormat(f) \notin Formats

\* emit, to its first output: the checks, fmt and base.
EmitStart ==
    /\ emit_pc = "start"
    /\ IF EmitRaises(tables_list, opt.fmt)
       THEN /\ emit_pc' = "done"
            /\ emit_outcome' = "TablePickError"
            /\ UNCHANGED <<fmt, base>>
       ELSE /\ emit_pc' = "stdout"
            /\ fmt' = NormalizedFormat(opt.fmt)
            /\ base' = _sanitize_stem(opt.base_name)
            /\ UNCHANGED emit_outcome
    /\ UNCHANGED <<opt, tables_list, written, printed, dirs, files>>
    /\ UNCHANGED exceptWriter

\* What _print_to_stdout prints for table idx: the marker, the table, and an
\* empty line unless the table is the last.
PrintedFor(tl, f, idx) ==
    << <<"=", "=", "=", "=", "=", " ", "t", "a", "b", "l", "e", " ">> \o idx02d(idx) \o <<" ", "(">> \o f \o <<")", " ", "=", "=", "=", "=", "=">>,
       _serialize(tl[idx], f) >>
        \o (IF idx # Len(tl) THEN << <<>> >> ELSE <<>>)

RECURSIVE _print_to_stdout(_, _, _)
_print_to_stdout(tl, f, idx) ==
    IF idx > Len(tl) THEN <<>>
    ELSE PrintedFor(tl, f, idx) \o _print_to_stdout(tl, f, idx + 1)

\* (1) of emit: the tables on stdout, if asked for.
EmitStdout ==
    /\ emit_pc = "stdout"
    /\ printed' = IF opt.stdout THEN _print_to_stdout(tables_list, fmt, 1)
                  ELSE printed
    /\ emit_pc' = "files"
    /\ UNCHANGED <<opt, tables_list, fmt, base, written, dirs, files, emit_outcome>>
    /\ UNCHANGED exceptWriter

\* (2) of emit, to its loop: the directory is made, if there is one.
EmitMkdir ==
    /\ emit_pc = "files"
    /\ IF opt.out_dir # None
       THEN dirs' = dirs \cup {opt.out_dir[1]} /\ emit_pc' = "loop"
       ELSE dirs' = dirs /\ emit_pc' = "return"
    /\ UNCHANGED <<opt, tables_list, fmt, base, written, printed, files, emit_outcome>>
    /\ UNCHANGED exceptWriter

\* One pass of emit's loop over the tables: table idx is written to its file.
EmitWrite ==
    /\ emit_pc = "loop"
    /\ Len(written) < Len(tables_list)
    /\ files' = Append(files,
                   _write_text(
                       PathJoin(opt.out_dir[1],
                                FileName(base, Len(written) + 1, fmt)),
                       _serialize(tables_list[Len(written) + 1], fmt)))
    /\ written' = Append(written,
                     PathJoin(opt.out_dir[1], FileName(base, Len(written) + 1, fmt)))
    /\ UNCHANGED <<emit_pc, opt, tables_list, fmt, base, printed, dirs, emit_outcome>>
    /\ UNCHANGED exceptWriter

\* emit returns written.
EmitReturn ==
    /\ \/ emit_pc = "return"
       \/ emit_pc = "loop" /\ Len(written) = Len(tables_list)
    /\ emit_pc' = "done"
    /\ emit_outcome' = "ok"
    /\ UNCHANGED <<opt, tables_list, fmt, base, written, printed, dirs, files>>
    /\ UNCHANGED exceptWriter

NextEmit == EmitStart \/ EmitStdout \/ EmitMkdir \/ EmitWrite \/ EmitReturn

SpecEmit == InitEmit /\ [][NextEmit]_vars

(***************************************************************************)
(* What the claims about emit speak of.                                    *)
(***************************************************************************)
\* Two strings that differ in the case of their letters at most.
SameIgnoringCase(a, b) ==
    /\ Len(a) = Len(b)
    /\ \A i \in 1..Len(a) :
          \/ a[i] = b[i]
          \/ \E n \in 1..Len(UpperCase) : {a[i], b[i]} = {UpperCase[n], LowerCase[n]}

\* f, the whitespace at its ends and the case of its letters aside, reads as name.
ReadsAs(f, name) ==
    \E i, j \in 1..Len(f) :
        /\ i <= j
        /\ \A k \in 1..(i - 1) : f[k] \in WS
        /\ \A k \in (j + 1)..Len(f) : f[k] \in WS
        /\ SameIgnoringCase(SubSeq(f, i, j), name)

Recognized(f) == ReadsAs(f, <<"c", "s", "v">>) \/ ReadsAs(f, <<"j", "s", "o", "n">>)

\* i < 100 in two digits.
TwoDigits(i) == <<DigitChar[(i \div 10) + 1], DigitChar[(i % 10) + 1]>>

\* A base name of lower-case letters and whitespace, with a letter.
PlainName(b) ==
    /\ \A i \in 1..Len(b) :
          b[i] \in WS \/ \E n \in 1..Len(LowerCase) : LowerCase[n] = b[i]
    /\ \E i \in 1..Len(b) : b[i] \notin WS

\* The words of a plain name with one underscore between them.
WordsUnderscored(b) ==
    LET NotEmpty(w) == w # <<>>
    IN  join(<<"_">>,
             SelectSeq(SplitAt(b, {i \in 1..Len(b) : b[i] \in WS}), NotEmpty))

\* The name emit is to give the file of table i.
NameOfFile(i) ==
    base \o <<"_", "t", "a", "b", "l", "e">> \o TwoDigits(i) \o <<".">>
        \o (IF ReadsAs(opt.fmt, <<"c", "s", "v">>) THEN <<"c", "s", "v">> ELSE <<"j", "s", "o", "n">>)

\* C13: emit fails with a TablePickError when the table sequence is empty,
\* and when the format, trimmed and lower-cased, is neither csv nor json:
\* once called with such arguments it has raised, and has put out nothing.
C13_EmitRejects ==
    (emit_pc # "start" /\ (tables_list = <<>> \/ ~Recognized(opt.fmt))) =>
        /\ emit_pc = "done"
        /\ emit_outcome = "TablePickError"
        /\ files = <<>>
        /\ printed = <<>>

\* emit has raised on the format md, handed one table (test_output.py).
C13_Witness ==
    /\ emit_pc = "done"
    /\ emit_outcome = "TablePickError"
    /\ Len(tables_list) = 1
    /\ opt.fmt = <<"m", "d">>

\* emit has raised on an empty list of tables, the format being csv.
C13_WitnessEmpty ==
    /\ emit_pc = "done"
    /\ emit_outcome = "TablePickError"
    /\ tables_list = <<>>
    /\ opt.fmt = <<"c", "s", "v">>

C14_WitnessTen ==
    /\ emit_pc = "done"
    /\ emit_outcome = "ok"
    /\ Len(files) = 10
    /\ files[10].path = <<"o", "/", "b", "a", "s", "e", "_", "t", "a", "b", "l", "e", "1", "0", ".", "j", "s", "o", "n">>

\* C15: every file emit writes ends with a line feed: its text is the
\* serialized table, followed by one added line feed when the serialization
\* does not end with one, and the serialization unchanged when it does.
C15_TrailingLineFeed ==
    \A k \in 1..Len(files) :
        /\ files[k].text # <<>>
        /\ files[k].text[Len(files[k].text)] = "\n"
        /\ files[k].text
              = IF _serialize(tables_list[k], fmt) # <<>>
                   /\ _serialize(tables_list[k], fmt)
                         [Len(_serialize(tables_list[k], fmt))] = "\n"
                THEN _serialize(tables_list[k], fmt)
                ELSE _serialize(tables_list[k], fmt) \o <<"\n">>

\* Two files are written: one whose serialization, H and V on two lines, got
\* a line feed added, and one whose serialization, a and an empty line, ends
\* with a line feed and is written as it is.
C15_Witness ==
    /\ Len(files) >= 2
    /\ files[1].text = <<"H", "\n", "V", "\n">>
    /\ files[2].text = <<"a", "\n">>
    /\ to_csv(tables_list[2]) = <<"a", "\n">>

(***************************************************************************)
(* main (src/src/tablepick/cli/main.py), with the parser of args.py and    *)
(* the prompts of prompt.py.  The command line is kept by option: whether  *)
(* the option is there, and its value.  What fetch, convert and emit do is *)
(* kept only as far as main sees it: they return, or raise.                *)
(***************************************************************************)
\* urllib.parse.urlparse, on the URLs of the model: scheme and netloc.
urlparse(v) ==
    CASE v = "https://example.com" -> [scheme |-> "https", netloc |-> "example.com"]
      [] v = "http://example.com" -> [scheme |-> "http", netloc |-> "example.com"]
      [] v = "ftp://example.com" -> [scheme |-> "ftp", netloc |-> "example.com"]
      [] v = "https://" -> [scheme |-> "https", netloc |-> ""]
      [] OTHER -> [scheme |-> "", netloc |-> ""]

\* The checks of _validate_url_strict on a parsed URL.
UrlAccepted(parsed) ==
    /\ parsed.scheme # ""
    /\ parsed.scheme \in {"http", "https"}
    /\ parsed.netloc # ""

\* args._validate_url_strict: whether it returns (it raises otherwise).
_validate_url_strict(value) == UrlAccepted(urlparse(value))

\* prompt._validate_url_strict: whether it returns (it raises otherwise).
prompt_validate_url_strict(value) == value # "" /\ UrlAccepted(urlparse(value))

\* The values an option can have on the command line.
UrlValues ==
    {"https://example.com", "http://example.com", "example.com",
     "ftp://example.com", "https://"}

ArgvInputs ==
    [help : BOOLEAN,
     url : {"absent", "novalue"} \cup UrlValues,
     format : {"absent", "novalue", "csv", "json", "md"},
     out_dir : {"absent", "novalue", "o"},
     filename_base : {"absent", "base"},
     stdout : {"absent", "--stdout", "--no-stdout"},
     retries : {"absent", "-1"}]

\* What is typed at the prompts; eof: the input has ended.
Answers ==
    [eof : BOOLEAN,
     url : {"https://example.com", "example.com"},
     format : {"", "json", "md"},
     out_dir : {"", "o"},
     filename_base : {"", "base"},
     stdout : {"", "n"}]

Raised(name, code, at) == [name |-> name, code |-> code, at |-> at]

\* _maybe_prompt_and_extend_argv's local need_prompt.
need_prompt(a) ==
    \/ a.url = "absent"
    \/ a.format = "absent"
    \/ a.out_dir = "absent"
    \/ a.filename_base = "absent"
    \/ a.stdout = "absent"

\* What fill_missing_with_prompt raises: EOFError from input(), or the
\* SystemExit of exit() after a URL or a format that is not accepted.
PromptRaises(a, ans) ==
    IF ans.eof THEN Raised("EOFError", None, "prompt")
    ELSE IF a.url \in {"absent", "novalue"} /\ ~prompt_validate_url_strict(ans.url)
    THEN Raised("SystemExit", None, "prompt")
    ELSE IF a.format = "absent" /\ ans.format \notin {"", "csv", "json"}
    THEN Raised("SystemExit", None, "prompt")
    ELSE NotRaised

\* _maybe_prompt_and_extend_argv's local extended.
extended(a, ans) ==
    [a EXCEPT
        !.url = IF @ = "absent" THEN ans.url ELSE @,
        !.format = IF @ # "absent" THEN @
                   ELSE IF ans.format = "" THEN "csv" ELSE ans.format,
        !.out_dir = IF @ = "absent" /\ ans.out_dir # "" THEN ans.out_dir ELSE @,
        !.filename_base = IF @ # "absent" THEN @
                          ELSE IF ans.filename_base = "" THEN "tablepick"
                          ELSE ans.filename_base,
        !.stdout = IF @ # "absent" THEN @
                   ELSE IF ans.stdout = "n" THEN "--no-stdout" ELSE "--stdout"]

\* Whether argparse ends in parser.error on these arguments.
ArgumentError(a) ==
    \/ a.url = "novalue"
    \/ a.url \in UrlValues /\ ~_validate_url_strict(a.url)
    \/ a.url = "absent" /\ ~a.help
    \/ a.format \in {"novalue", "md"}
    \/ a.out_dir = "novalue"

\* The codes parse_args can exit with: 0 after --help, 2 after an error,
\* whichever argparse meets first on the command line; none if it returns.
ParseExits(a) ==
    (IF a.help THEN {Some(0)} ELSE {})
        \cup (IF ArgumentError(a) /\ ~(a.help /\ a.url = "absent" /\
                    a.format \notin {"novalue", "md"} /\ a.out_dir # "novalue")
              THEN {Some(2)} ELSE {})

InitCli ==
    /\ ConverterIdle
    /\ CsvIdle
    /\ WriterIdle
    /\ FetcherIdle
    /\ cli_pc = "prompt"
    /\ argv \in ArgvInputs
    /\ completed = {}
    /\ raised = NotRaised
    /\ exit_code = -1

\* What main does when a call of its try block has raised r, or has not.
Raise(r, next) ==
    IF r = NotRaised
    THEN cli_pc' = next /\ raised' = raised
    ELSE cli_pc' = "except" /\ raised' = r

\* 1) of main: _maybe_prompt_and_extend_argv.
CliPrompt ==
    /\ cli_pc = "prompt"
    /\ IF argv.help \/ ~need_prompt(argv)
       THEN /\ argv' = argv
            /\ Raise(NotRaised, "parse")
       ELSE \E ans \in Answers :
               /\ Raise(PromptRaises(argv, ans), "parse")
               /\ argv' = IF PromptRaises(argv, ans) = NotRaised
                          THEN extended(argv, ans) ELSE argv
    /\ UNCHANGED <<completed, exit_code>>
    /\ UNCHANGED exceptCli

\* 2) of main: parse_args.
CliParse ==
    /\ cli_pc = "parse"
    /\ IF ParseExits(argv) = {}
       THEN Raise(NotRaised, "fetch")
       ELSE \E code \in ParseExits(argv) :
               Raise(Raised("SystemExit", code, "parse"), "fetch")
    /\ UNCHANGED <<argv, completed, exit_code>>
    /\ UNCHANGED exceptCli

\* What fetch can do: return, or raise an exception of requests; with
\* retries below zero _request_with_policy makes no request and its assert fails.
FetchOutcomes(a) ==
    IF a.retries = "-1" THEN {"AssertionError"}
    ELSE {"ok", "ConnectionError", "HTTPError", "TooManyRedirects"}

ConvertOutcomes == {"ok", "NoTableFoundError", "TableConversionError"}

\* emit is handed a list that is not empty and a format argparse let through;
\* what is left to fail is the writing.
EmitOutcomes == {"ok", "OSError"}

\* One call of the pipeline: it returns, or it raises the exception named.
Call(stage, result, next) ==
    /\ Raise(IF result = "ok" THEN NotRaised ELSE Raised(result, None, stage), next)
    /\ completed' = IF result = "ok" THEN completed \cup {stage} ELSE completed

\* 3) and 4) of main, to the call of fetch.
CliFetch ==
    /\ cli_pc = "fetch"
    /\ \E result \in FetchOutcomes(argv) : Call("fetch", result, "convert")
    /\ UNCHANGED <<argv, exit_code>>
    /\ UNCHANGED exceptCli

CliConvert ==
    /\ cli_pc = "convert"
    /\ \E result \in ConvertOutcomes : Call("convert", result, "emit")
    /\ UNCHANGED <<argv, exit_code>>
    /\ UNCHANGED exceptCli

CliEmit ==
    /\ cli_pc = "emit"
    /\ \E result \in EmitOutcomes : Call("emit", result, "return")
    /\ UNCHANGED <<argv, exit_code>>
    /\ UNCHANGED exceptCli

\* return 0
CliReturn ==
    /\ cli_pc = "return"
    /\ exit_code' = 0
    /\ cli_pc' = "done"
    /\ UNCHANGED <<argv, completed, raised>>
    /\ UNCHANGED exceptCli

\* except SystemExit as e: the code of e, 1 if it has none.
ExceptSystemExit ==
    /\ cli_pc = "except"
    /\ raised.name = "SystemExit"
    /\ exit_code' = IF raised.code # None THEN raised.code[1] ELSE 1
    /\ cli_pc' = "done"
    /\ UNCHANGED <<argv, completed, raised>>
    /\ UNCHANGED exceptCli

\* except Exception: return 1
ExceptException ==
    /\ cli_pc = "except"
    /\ raised.name # "SystemExit"
    /\ exit_code' = 1
    /\ cli_pc' = "done"
    /\ UNCHANGED <<argv, completed, raised>>
    /\ UNCHANGED exceptCli

NextCli ==
    \/ CliPrompt
    \/ CliParse
    \/ CliFetch
    \/ CliConvert
    \/ CliEmit
    \/ CliReturn
    \/ ExceptSystemExit
    \/ ExceptException

SpecCli == InitCli /\ [][NextCli]_vars

(***************************************************************************)
(* What the claims about main speak of.                                    *)
(***************************************************************************)
\* The command line was bad: argparse ended in an error, or a prompt was
\* given a URL or a format that is not accepted.
BadInput == raised.name = "SystemExit" /\ raised.code # Some(0)

FetchFailure ==
    raised.at = "fetch"
        /\ raised.name \in {"ConnectionError", "HTTPError", "TooManyRedirects"}

TablePickFailure ==
    raised.name \in {"NoTableFoundError", "TableConversionError", "TablePickError"}

\* An exception was raised that is none of the expected failures.
UnexpectedFailure ==
    /\ raised # NotRaised
    /\ raised.name # "SystemExit"
    /\ ~FetchFailure
    /\ ~TablePickFailure

\* C16: main returns 1 for every expected failure: bad command-line input,
\* a fetch failure, a page with no tables; and it returns 0 only when fetch,
\* convert and emit all succeeded.
C16_ExpectedFailuresExitOne ==
    cli_pc = "done" =>
        /\ (BadInput \/ FetchFailure \/ raised.name = "NoTableFoundError")
              => exit_code = 1
        /\ exit_code = 0 => completed = {"fetch", "convert", "emit"}

\* C17: main returns 2 when the pipeline raised an exception that is none of
\* the expected failures.
C17_UnexpectedFailuresExitTwo ==
    (cli_pc = "done" /\ UnexpectedFailure) => exit_code = 2

(***************************************************************************)
(* HtmlFetcher.fetch (src/src/tablepick/core/get_html.py).  A URL is a     *)
(* number; the network answers each request as it likes: with a network    *)
(* error, or with a response that is a page, an HTTP error or a redirect.  *)
(* A response's url is the URL requested, and the Location of a redirect,  *)
(* resolved by urljoin, is the URL it names.                               *)
(***************************************************************************)
\* The largest retries and max_redirects of a FetchConfig.
MaxRetries == 2

MaxRedirects == 2

\* The URLs: enough for a chain of redirects one longer than is followed.
Urls == 1..(MaxRedirects + 2)

\* The responses to a request of url: status 2xx, status 4xx or 5xx, or a
\* redirect, whose Location names a URL or is empty.
Responses(url) ==
    {[url |-> url, kind |-> "page", location |-> None],
     [url |-> url, kind |-> "error", location |-> None],
     [url |-> url, kind |-> "redirect", location |-> None]}
        \cup {[url |-> url, kind |-> "redirect", location |-> Some(u)] : u \in Urls}

InitFetch ==
    /\ ConverterIdle
    /\ CsvIdle
    /\ WriterIdle
    /\ CliIdle
    /\ fetch_pc = "start"
    /\ config \in [retries : 0..MaxRetries,
                   retry_interval : {RetryInterval},
                   max_redirects : 0..MaxRedirects]
    /\ FetcherLocalsUnset

\* One call of requests.get, as the log keeps it.
Get(url, n, answer) == [op |-> "get", url |-> url, attempt |-> n, answer |-> answer]

\* One call of time.sleep.
Sleep(seconds) == [op |-> "sleep", url |-> 0, attempt |-> 0, answer |-> Some(seconds)]

\* The except block that sleeps after every failed attempt.
FailedAttemptAlwaysSleeps(url, n, cfg) ==
    <<Get(url, n, None), Sleep(cfg.retry_interval)>>

\* The except block of _request_with_policy: what it adds to the log.
FailedAttempt(url, n, cfg) ==
    <<Get(url, n, None)>>
        \o (IF n < cfg.retries THEN <<Sleep(cfg.retry_interval)>> ELSE <<>>)

\* Element 4 of _follow_redirects that lets one more redirect through.
LimitReachedLate(followed, cfg) == followed > cfg.max_redirects

\* Element 4 of _follow_redirects: no more redirects are followed.
LimitReached(followed, cfg) == followed >= cfg.max_redirects

\* 1), 2) and the call at 3) of fetch.
FetchStart ==
    /\ fetch_pc = "start"
    /\ fetch_pc' = "request"
    /\ caller' = "fetch"
    /\ req_url' = 1
    /\ attempt' = 0
    /\ last_exc' = None
    /\ UNCHANGED <<config, response, redirects_followed, visited, log, fetch_outcome>>
    /\ UNCHANGED exceptFetcher

\* The pass in which requests.get returns, with a caller that does not count
\* the redirects it has followed.
RequestReturnsUncounted ==
    /\ fetch_pc = "request"
    /\ attempt <= config.retries
    /\ \E r \in Responses(req_url) :
          /\ response' = Some(r)
          /\ log' = Append(log, Get(req_url, attempt, Some(r)))
    /\ fetch_pc' = IF caller = "fetch" THEN "follow" ELSE "loop"
    /\ UNCHANGED <<config, caller, req_url, attempt, last_exc, visited, fetch_outcome,
                   redirects_followed>>
    /\ UNCHANGED exceptFetcher

\* One pass of _request_with_policy's loop in which requests.get returns:
\* the response goes to the caller, who counts it if it followed a redirect.
RequestReturns ==
    /\ fetch_pc = "request"
    /\ attempt <= config.retries
    /\ \E r \in Responses(req_url) :
          /\ response' = Some(r)
          /\ log' = Append(log, Get(req_url, attempt, Some(r)))
    /\ IF caller = "fetch"
       THEN fetch_pc' = "follow" /\ UNCHANGED redirects_followed
       ELSE fetch_pc' = "loop" /\ redirects_followed' = redirects_followed + 1
    /\ UNCHANGED <<config, caller, req_url, attempt, last_exc, visited, fetch_outcome>>
    /\ UNCHANGED exceptFetcher

\* One pass of _request_with_policy's loop in which requests.get raises.
RequestFails ==
    /\ fetch_pc = "request"
    /\ attempt <= config.retries
    /\ last_exc' = Some([url |-> req_url, attempt |-> attempt])
    /\ log' = log \o FailedAttempt(req_url, attempt, config)
    /\ attempt' = attempt + 1
    /\ UNCHANGED <<fetch_pc, config, caller, req_url, response, redirects_followed,
                   visited, fetch_outcome>>
    /\ UNCHANGED exceptFetcher

\* Element 3 of _request_with_policy: the loop is over, the last exception
\* is raised, through _follow_redirects and fetch.
RaiseLast ==
    /\ fetch_pc = "request"
    /\ attempt > config.retries
    /\ fetch_outcome' = IF last_exc = None
                        THEN [name |-> "AssertionError", exc |-> None]
                        ELSE [name |-> "RequestException", exc |-> last_exc]
    /\ fetch_pc' = "done"
    /\ UNCHANGED <<config, caller, req_url, attempt, last_exc, response,
                   redirects_followed, visited, log>>
    /\ UNCHANGED exceptFetcher

\* _follow_redirects, to its loop.
FollowStart ==
    /\ fetch_pc = "follow"
    /\ redirects_followed' = 0
    /\ visited' = {response[1].url}
    /\ fetch_pc' = "loop"
    /\ UNCHANGED <<config, caller, req_url, attempt, last_exc, response, log,
                   fetch_outcome>>
    /\ UNCHANGED exceptFetcher

\* Whether _follow_redirects returns the response: it is no redirect, or
\* its Location is empty.
Final(r) == r.kind # "redirect" \/ r.location = None

\* One pass of _follow_redirects' loop, to its return, its raise or its call
\* of _request_with_policy.
FollowStep ==
    /\ fetch_pc = "loop"
    /\ IF Final(response[1])
       THEN /\ fetch_pc' = "status"
            /\ UNCHANGED <<caller, req_url, attempt, last_exc, visited, fetch_outcome>>
       ELSE IF LimitReached(redirects_followed, config)
       THEN /\ fetch_pc' = "done"
            /\ fetch_outcome' = [name |-> "TooManyRedirects", exc |-> Some("limit")]
            /\ UNCHANGED <<caller, req_url, attempt, last_exc, visited>>
       ELSE IF response[1].location[1] \in visited
       THEN /\ fetch_pc' = "done"
            /\ fetch_outcome' = [name |-> "TooManyRedirects", exc |-> Some("loop")]
            /\ UNCHANGED <<caller, req_url, attempt, last_exc, visited>>
       ELSE /\ visited' = visited \cup {response[1].location[1]}
            /\ fetch_pc' = "request"
            /\ caller' = "_follow_redirects"
            /\ req_url' = response[1].location[1]
            /\ attempt' = 0
            /\ last_exc' = None
            /\ UNCHANGED fetch_outcome
    /\ UNCHANGED <<config, response, redirects_followed, log>>
    /\ UNCHANGED exceptFetcher

\* 5) to 7) of fetch: raise_for_status, then the return.
FetchFinish ==
    /\ fetch_pc = "status"
    /\ fetch_outcome' = IF response[1].kind = "error"
                        THEN [name |-> "HTTPError", exc |-> None]
                        ELSE [name |-> "ok", exc |-> None]
    /\ fetch_pc' = "done"
    /\ UNCHANGED <<config, caller, req_url, attempt, last_exc, response,
                   redirects_followed, visited, log>>
    /\ UNCHANGED exceptFetcher

NextFetch ==
    \/ FetchStart
    \/ RequestReturns
    \/ RequestFails
    \/ RaiseLast
    \/ FollowStart
    \/ FollowStep
    \/ FetchFinish

SpecFetch == InitFetch /\ [][NextFetch]_vars

\* fetch runs on: requests.get returns or raises within the timeout,
\* time.sleep returns, and every other step is a statement of the program.
SpecFetchLive == InitFetch /\ [][NextFetch]_vars /\ WF_vars(NextFetch)

(***************************************************************************)
(* What the claims about fetch speak of.                                   *)
(***************************************************************************)
IsGet(e) == e.op = "get"

\* A request that ended in a network error.
Failed(e) == e.op = "get" /\ Len(e.answer) = 0

\* A request that was answered.
Answered(e) == e.op = "get" /\ Len(e.answer) = 1

\* The requests so far, in order.
Requests == SelectSeq(log, IsGet)

\* The first attempts: one per URL requested.
IsFirstAttempt(e) == e.op = "get" /\ e.attempt = 0

Hops == SelectSeq(log, IsFirstAttempt)

\* The last request made was the last attempt allowed, and it failed.
AllAttemptsFailed ==
    /\ Requests # <<>>
    /\ Failed(Requests[Len(Requests)])
    /\ Requests[Len(Requests)].attempt = config.retries

\* C18: a request that failed with a network error is tried again, after a
\* wait of retry_interval, up to `retries` times: the attempts for one URL
\* are numbered 0..retries, each but the first following a failed one; the
\* first response obtained is returned to the caller and ends the attempts;
\* the last network error is raised if and only if all attempts failed; and
\* a wait follows every failed attempt but the last one allowed.
C18_RetryPolicy ==
    /\ \A i \in 1..Len(Requests) :
          /\ Requests[i].attempt <= config.retries
          /\ Requests[i].attempt > 0 =>
                /\ i > 1
                /\ Failed(Requests[i - 1])
                /\ Requests[i - 1].url = Requests[i].url
                /\ Requests[i - 1].attempt = Requests[i].attempt - 1
          /\ (i > 1 /\ Answered(Requests[i - 1])) => Requests[i].attempt = 0
    /\ (Requests # <<>> /\ Answered(Requests[Len(Requests)])) =>
          response = Requests[Len(Requests)].answer
    /\ fetch_pc = "done" =>
          /\ fetch_outcome.name = "RequestException" <=> AllAttemptsFailed
          /\ fetch_outcome.name = "RequestException" =>
                fetch_outcome.exc
                    = Some([url |-> Requests[Len(Requests)].url,
                            attempt |-> Requests[Len(Requests)].attempt])
          /\ fetch_outcome.name # "AssertionError"
    /\ \A i \in 1..Len(log) :
          /\ Failed(log[i]) =>
                IF log[i].attempt < config.retries
                THEN i < Len(log) /\ log[i + 1] = Sleep(config.retry_interval)
                ELSE i = Len(log) \/ log[i + 1].op # "sleep"
          /\ log[i].op = "sleep" => (i > 1 /\ Failed(log[i - 1]))

\* With retries = 2, three attempts for the first URL have failed, with a
\* wait after the first and the second, and the third error was raised.
C18_Witness ==
    /\ config.retries = 2
    /\ fetch_pc = "done"
    /\ fetch_outcome = [name |-> "RequestException",
                        exc |-> Some([url |-> 1, attempt |-> 2])]
    /\ log = <<Get(1, 0, None), Sleep(RetryInterval), Get(1, 1, None),
               Sleep(RetryInterval), Get(1, 2, None)>>

\* With retries = 2, the second attempt was answered and fetch returned.
C18_WitnessAnswered ==
    /\ config.retries = 2
    /\ fetch_pc = "done"
    /\ fetch_outcome.name = "ok"
    /\ Len(log) = 3
    /\ Failed(log[1])
    /\ log[2] = Sleep(RetryInterval)
    /\ Answered(log[3])

\* C19: at most max_redirects redirects are followed; the response returned
\* is the last one obtained and is not a redirect to follow; a further
\* redirect, when max_redirects have been followed, raises TooManyRedirects;
\* so does a redirect to a URL already requested in this fetch, which is
\* not requested again; an HTTP error status on the last response raises
\* HTTPError.
C19_Redirects ==
    /\ redirects_followed <= config.max_redirects
    /\ Len(Hops) <= config.max_redirects + 1
    /\ \A i, j \in 1..Len(Hops) : Hops[i].url = Hops[j].url => i = j
    /\ \A i \in 2..Len(Hops) :
          \E k \in 1..Len(Requests) :
              /\ Answered(Requests[k])
              /\ Requests[k].answer[1].kind = "redirect"
              /\ Requests[k].answer[1].location = Some(Hops[i].url)
              /\ Requests[k].url = Hops[i - 1].url
    /\ (fetch_pc = "done" /\ fetch_outcome.name # "RequestException") =>
          /\ response = Requests[Len(Requests)].answer
          /\ fetch_outcome.name = "ok" =>
                /\ response[1].kind # "error"
                /\ response[1].kind = "redirect" => response[1].location = None
          /\ response[1].kind = "page" => fetch_outcome.name = "ok"
          /\ response[1].kind = "error" => fetch_outcome.name = "HTTPError"
          /\ (response[1].kind = "redirect" /\ response[1].location # None) =>
                /\ fetch_outcome.name = "TooManyRedirects"
                /\ \/ Len(Hops) = config.max_redirects + 1
                   \/ \E i \in 1..Len(Hops) :
                         Hops[i].url = response[1].location[1]
                /\ Len(Hops) <= config.max_redirects =>
                      fetch_outcome.exc = Some("loop")

\* With max_redirects = 2, two redirects were followed and the page they
\* led to was returned.
C19_Witness ==
    /\ config = [retries |-> 0, retry_interval |-> RetryInterval, max_redirects |-> 2]
    /\ fetch_pc = "done"
    /\ fetch_outcome.name = "ok"
    /\ redirects_followed = 2
    /\ Len(Hops) = 3
    /\ response[1].kind = "page"

\* With max_redirects = 2, a third redirect to a new URL raised TooManyRedirects.
C19_WitnessLimit ==
    /\ config.max_redirects = 2
    /\ fetch_pc = "done"
    /\ fetch_outcome.name = "TooManyRedirects"
    /\ redirects_followed = 2
    /\ \A i \in 1..Len(Hops) : Hops[i].url # response[1].location[1]

\* A redirect back to the first URL raised TooManyRedirects after one
\* redirect, max_redirects being 2.
C19_WitnessLoop ==
    /\ config.max_redirects = 2
    /\ fetch_pc = "done"
    /\ fetch_outcome.name = "TooManyRedirects"
    /\ redirects_followed = 1
    /\ response[1].location = Some(1)

\* An HTTP error status on the response a redirect led to raised HTTPError.
C19_WitnessHttpError ==
    /\ fetch_pc = "done"
    /\ fetch_outcome.name = "HTTPError"
    /\ redirects_followed = 1

(***************************************************************************)
(* What the claim about bracketed annotations speaks of.                   *)
(***************************************************************************)
\* s has, from i to j, a bracket, whitespace, one digit or more, whitespace
\* and a closing bracket.
IsAnnotation(s, i, j) ==
    /\ s[i] = "["
    /\ s[j] = "]"
    /\ \E a, b \in (i + 1)..(j - 1) :
          /\ a <= b
          /\ \A k \in (i + 1)..(a - 1) : s[k] \in WS
          /\ \A k \in a..b : s[k] \in Digits
          /\ \A k \in (b + 1)..(j - 1) : s[k] \in WS

HasAnnotation(s) == \E i, j \in 1..Len(s) : i < j /\ IsAnnotation(s, i, j)

\* C20: bracketed pure-numeric annotations are removed entirely: no cleaned
\* cell text that convert returns has a substring made of '[', optional
\* whitespace, one or more digits, optional whitespace and ']'.
C20_NoAnnotationLeft ==
    \A k \in 1..Len(results) :
        \A r \in 1..Len(RowsOfTable(results[k])) :
            \A c \in 1..Len(RowsOfTable(results[k])[r]) :
                ~HasAnnotation(RowsOfTable(results[k])[r][c])

(***************************************************************************)
(* What the claim about compact JSON speaks of.                            *)
(***************************************************************************)
\* The whitespace of JSON.
JsonWS == {" ", "\t", "\n", "\r"}

Punct(c) == [kind |-> "punct", val |-> <<c>>]

Str(v) == [kind |-> "string", val |-> v]

\* The character an escape \c stands for.
Unescaped(c) ==
    CASE c = "n" -> "\n"
      [] c = "r" -> "\r"
      [] c = "t" -> "\t"
      [] OTHER -> c

\* The tokens of a JSON text from position i on: string values, decoded, and
\* the characters between them, whitespace left out.  cur is the string
\* being read when inStr holds.
RECURSIVE JsonTokens(_, _, _, _)
JsonTokens(s, i, inStr, cur) ==
    IF i > Len(s) THEN (IF inStr THEN << Punct("unterminated") >> ELSE <<>>)
    ELSE IF inStr
         THEN IF s[i] = "\\" /\ i < Len(s)
              THEN JsonTokens(s, i + 2, TRUE, Append(cur, Unescaped(s[i + 1])))
              ELSE IF s[i] = "\""
                   THEN << Str(cur) >> \o JsonTokens(s, i + 1, FALSE, <<>>)
                   ELSE JsonTokens(s, i + 1, TRUE, Append(cur, s[i]))
         ELSE IF s[i] = "\""
              THEN JsonTokens(s, i + 1, TRUE, <<>>)
              ELSE IF s[i] \in JsonWS
                   THEN JsonTokens(s, i + 1, FALSE, <<>>)
                   ELSE << Punct(s[i]) >> \o JsonTokens(s, i + 1, FALSE, <<>>)

\* The positions of a JSON text, from i on, that lie outside its string values.
RECURSIVE OutsideFrom(_, _, _)
OutsideFrom(s, i, inStr) ==
    IF i > Len(s) THEN {}
    ELSE IF inStr
         THEN IF s[i] = "\\" THEN OutsideFrom(s, i + 2, TRUE)
              ELSE OutsideFrom(s, i + 1, s[i] # "\"")
         ELSE IF s[i] = "\"" THEN OutsideFrom(s, i + 1, TRUE)
              ELSE {i} \cup OutsideFrom(s, i + 1, FALSE)

Outside(s) == OutsideFrom(s, 1, FALSE)

\* The tokens of an object whose members are items n, n + 1, ...
RECURSIVE MemberTokens(_, _)
MemberTokens(items, n) ==
    IF n > Len(items) THEN <<>>
    ELSE (IF n > 1 THEN << Punct(",") >> ELSE <<>>)
            \o << Str(items[n][1]), Punct(":"), Str(items[n][2]) >>
            \o MemberTokens(items, n + 1)

\* The tokens of the objects of records n, n + 1, ..., one object per row.
RECURSIVE ObjectTokens(_, _)
ObjectTokens(recs, n) ==
    IF n > Len(recs) THEN <<>>
    ELSE (IF n > 1 THEN << Punct(",") >> ELSE <<>>)
            \o << Punct("{") >> \o MemberTokens(recs[n], 1) \o << Punct("}") >>
            \o ObjectTokens(recs, n + 1)

\* text is a JSON array of one object per row of t, in row order.
ArrayOfRows(t, text) ==
    JsonTokens(text, 1, FALSE, <<>>)
        = << Punct("[") >> \o ObjectTokens(t.records, 1) \o << Punct("]") >>

\* The JSON texts emit has produced, each with its table: those printed,
\* and those written, the line feed that ends the file aside.
JsonOutputs ==
    IF fmt # <<"j", "s", "o", "n">> THEN {}
    ELSE {<<tables_list[k], printed[3 * k - 1]>> :
              k \in {n \in 1..Len(tables_list) : 3 * n - 1 <= Len(printed)}}
         \cup {<<tables_list[k], SubSeq(files[k].text, 1, Len(files[k].text) - 1)>> :
                  k \in 1..Len(files)}

NoWhitespaceOutside(text) == \A i \in Outside(text) : text[i] \notin JsonWS

\* The only whitespace outside the string values is one space after each
\* "," and each ":".
SpaceAfterSeparators(text) ==
    \A i \in Outside(text) :
        /\ text[i] \in JsonWS =>
              /\ text[i] = " "
              /\ i > 1
              /\ (i - 1) \in Outside(text)
              /\ text[i - 1] \in {",", ":"}
        /\ text[i] \in {",", ":"} => (i < Len(text) /\ text[i + 1] = " ")

\* C21 (as stated): to_json with indent None gives a JSON array of one
\* object per row, in row order, and no whitespace character occurs in it
\* outside the string values.
C21_NoWhitespaceOutsideStrings ==
    \A o \in JsonOutputs : ArrayOfRows(o[1], o[2]) /\ NoWhitespaceOutside(o[2])

\* C21 (amended): to_json with indent None gives a JSON array of one object
\* per row, in row order, on one line: the only whitespace outside the string
\* values is the single space that follows each "," and each ":".
C21_CompactJson ==
    \A o \in JsonOutputs : ArrayOfRows(o[1], o[2]) /\ SpaceAfterSeparators(o[2])

\* A table of two rows and two columns, a value of which holds a space, has
\* been written as JSON.
C21_Witness ==
    \E o \in JsonOutputs :
        /\ Len(o[1].rows) = 2
        /\ Len(o[1].header) = 2
        /\ \E r \in 1..2 : \E c \in 1..2 : \E i \in 1..Len(o[1].rows[r][c]) :
              o[1].rows[r][c][i] = " "
        /\ o[2] = <<"[", "{", "\"", "a", "\"", ":", " ", "\"", "x", " ", "y", "\"", ",", " ",
                    "\"", "b", "\"", ":", " ", "\"", "\\", "\"", "\"", "}", ",", " ",
                    "{", "\"", "a", "\"", ":", " ", "\"", "\\", "n", "\"", ",", " ",
                    "\"", "b", "\"", ":", " ", "\"", "2", "\"", "}", "]">>

(***************************************************************************)
(* What the claim about the number of columns speaks of.                   *)
(***************************************************************************)
\* The rows _convert_single_table reads from the table convert is about to
\* convert.
RowsOfNextTable ==
    RowLoop(doc,
            [raw_rows |-> <<>>, row_is_header |-> <<>>,
             tree |-> Tree(removed, unwrapped)],
            find_all(doc, Tree(removed, unwrapped), tables[Len(results) + 1], {"tr"}))

\* With the rows read, _convert_single_table goes past its check of max_cols.
PassesMaxCols(read) ==
    /\ BuildTable(tables[Len(results) + 1], read.raw_rows, read.row_is_header).err = "none"
    /\ BuildTable(tables[Len(results) + 1], read.raw_rows, read.row_is_header).frame.max_cols >= 1

\* C22: every table convert has converted has at least one column and no
\* header entry is the empty string; and whenever the table convert is about
\* to convert has a surviving row, max_cols is at least 1, so that the
\* max_cols <= 0 failure is not raised.
C22_AtLeastOneColumn ==
    /\ \A k \in 1..Len(results) :
          /\ Len(results[k].header) >= 1
          /\ frames[k].max_cols >= 1
          /\ \A c \in 1..Len(results[k].header) : results[k].header[c] # <<>>
    /\ (pc = "loop" /\ Len(results) < Len(tables) /\ RowsOfNextTable.raw_rows # <<>>)
          => PassesMaxCols(RowsOfNextTable)

\* convert has returned a table whose header rows leave a column without any
\* text: that column is named by its number.
C22_Witness ==
    /\ pc = "done"
    /\ outcome = "ok"
    /\ \E k \in 1..Len(returned) :
          /\ frames[k].header_rows # <<>>
          /\ \E c \in 1..frames[k].max_cols :
                /\ \A n \in 1..Len(frames[k].header_rows) :
                      \/ Len(frames[k].header_rows[n]) < c
                      \/ frames[k].header_rows[n][c] = <<>>
                /\ returned[k].header[c] = ColName(c)

\* A table with a surviving row is about to be converted.
C22_WitnessSurvivingRow ==
    /\ pc = "loop"
    /\ Len(results) < Len(tables)
    /\ RowsOfNextTable.raw_rows # <<>>
    /\ \E n \in 1..Len(RowsOfNextTable.raw_rows) : RowsOfNextTable.raw_rows[n] = << <<>> >>

(***************************************************************************)
(* What the claim about tables of header rows only speaks of.              *)
(***************************************************************************)
\* Rows were read, and every one of them is header-tagged.
AllHeaderTagged(raw_rows, row_is_header) ==
    /\ raw_rows # <<>>
    /\ \A n \in 1..Len(row_is_header) : row_is_header[n]

\* t has the merged header of the rows, no row and no record.
HeaderOnly(t, raw_rows) ==
    /\ Len(t.header) = SetMax({Len(raw_rows[n]) : n \in 1..Len(raw_rows)})
    /\ \A c \in 1..Len(t.header) : t.header[c] = RefHeaderName(raw_rows, c)
    /\ t.rows = <<>>
    /\ t.records = <<>>

\* The CSV text of t is one line, which reads as the header.
CsvIsHeaderLine(t) ==
    /\ UnquotedAt(to_csv(t), "\n") = {}
    /\ ReadLine(to_csv(t)) = t.header

\* C23: a table whose surviving rows are all header-tagged does not make
\* convert fail: it is converted to a table with the merged header, no rows
\* and no records, and the CSV text of that table is the header line alone.
C23_HeaderOnlyTable ==
    /\ \A k \in 1..Len(results) :
          AllHeaderTagged(frames[k].raw_rows, frames[k].row_is_header)
              => HeaderOnly(results[k], frames[k].raw_rows) /\ CsvIsHeaderLine(results[k])
    /\ (/\ pc = "loop"
        /\ Len(results) < Len(tables)
        /\ AllHeaderTagged(RowsOfNextTable.raw_rows, RowsOfNextTable.row_is_header))
          => BuildTable(tables[Len(results) + 1], RowsOfNextTable.raw_rows,
                        RowsOfNextTable.row_is_header).err = "none"

\* convert has returned a table read from two header rows and no other row.
C23_Witness ==
    /\ pc = "done"
    /\ outcome = "ok"
    /\ \E k \in 1..Len(returned) :
          /\ AllHeaderTagged(frames[k].raw_rows, frames[k].row_is_header)
          /\ Len(frames[k].raw_rows) = 2
          /\ returned[k].rows = <<>>
          /\ returned[k].records = <<>>
          /\ \E c \in 1..Len(returned[k].header) :
                \E u \in 1..Len(returned[k].header[c]) : returned[k].header[c][u] = "_"

(***************************************************************************)
(* What the claim about a table nested in a cell speaks of.                *)
(***************************************************************************)
\* Table u is nested inside a cell of table t.
NestedInCell(t, u) ==
    /\ t \in TableNodes
    /\ u \in TableNodes
    /\ \E r \in RowsOf(t) : \E c \in CellsOf(r) : u \in Descendants(doc, c)

\* The conversion of table t, whose locals are f, took in the table u nested
\* in it: the rows of u are rows of t, each row has as many cells as there
\* are cells below it, and is header-tagged when a header-style cell is below
\* it, those of u included.
TakenIn(f, t, u) ==
    /\ Len(f.raw_rows) = Len(SurvivingRows(t))
    /\ \A r \in RowsOf(u) : CellsOf(r) # {} =>
          \E n \in 1..Len(f.raw_rows) : SurvivingRows(t)[n] = r
    /\ \A n \in 1..Len(f.raw_rows) :
          /\ n <= Len(SurvivingRows(t))
          /\ Len(f.raw_rows[n]) = Cardinality(CellsOf(SurvivingRows(t)[n]))
          /\ f.row_is_header[n] = HeaderTagged(SurvivingRows(t)[n])

\* The cells read for table u are among those read for table t, row by row.
CellsInBoth(ft, fu) ==
    \A m \in 1..Len(fu.raw_rows) :
        \E n \in 1..Len(ft.raw_rows) :
            \E from \in 0..(Len(ft.raw_rows[n]) - Len(fu.raw_rows[m])) :
                SubSeq(ft.raw_rows[n], from + 1, from + Len(fu.raw_rows[m]))
                    = fu.raw_rows[m]

\* C24: when a table is nested inside a cell of another table, the conversion
\* of the outer table takes in the inner table (its rows are rows of the
\* outer table, the outer row that holds it counts its cells, and is
\* header-tagged when it has a header-style cell); and the inner table is
\* converted as a table of its own as well, so that, every table of the
\* document having a row with a cell, convert returns both and the inner
\* table's cells are in both.
C24_NestedTableInBoth ==
    /\ \A k \in 1..Len(frames) : \A u \in TableNodes :
          NestedInCell(frames[k].table, u) => TakenIn(frames[k], frames[k].table, u)
    /\ (/\ pc = "done"
        /\ \E t, u \in TableNodes : NestedInCell(t, u)
        /\ \A t \in TableNodes : ~Unusable(t)) =>
          /\ outcome = "ok"
          /\ \A k, j \in 1..Len(frames) :
                NestedInCell(frames[k].table, frames[j].table)
                    => CellsInBoth(frames[k], frames[j])

\* No table of the document lies in a footnote mark.
NoTableInSup ==
    \A u \in TableNodes : \A m \in 1..Len(doc) :
        doc[m].tag = "sup" => u \notin Descendants(doc, m)

\* The same, for the documents none of whose tables lies in a footnote mark.
C24_NestedOutsideSup == NoTableInSup => C24_NestedTableInBoth

\* convert has returned two tables, one nested in a cell of the other, the
\* inner one with a header-style cell.
C24_WitnessNested ==
    /\ pc = "done"
    /\ outcome = "ok"
    /\ \E k, j \in 1..Len(frames) :
          /\ NestedInCell(frames[k].table, frames[j].table)
          /\ \E r \in RowsOf(frames[j].table) : HeaderTagged(r)
          /\ frames[k].row_is_header[1]

(***************************************************************************)
(* What the claim about the number of requests speaks of.                  *)
(***************************************************************************)
\* The URLs requested so far.
UrlsRequested == {Requests[i].url : i \in 1..Len(Requests)}

\* The requests made for url.
RequestsFor(url) == {i \in 1..Len(Requests) : Requests[i].url = url}

\* At most max_redirects + 1 URLs have been requested, each at most
\* retries + 1 times whatever was spent on the URLs before it, which makes
\* (max_redirects + 1) * (retries + 1) requests at most.
WithinBudget ==
    /\ Cardinality(UrlsRequested) <= config.max_redirects + 1
    /\ \A u \in UrlsRequested : Cardinality(RequestsFor(u)) <= config.retries + 1
    /\ Len(Requests) <= (config.max_redirects + 1) * (config.retries + 1)

\* fetch has ended, with a result or with an exception.
FetchEnded == fetch_pc = "done" /\ fetch_outcome.name # "none"

\* C25: whatever the network does, for all retries >= 0 and max_redirects
\* >= 0, fetch ends, with a result or an exception, and never makes more
\* than (max_redirects + 1) * (retries + 1) requests, each URL of the chain
\* of redirects having retries + 1 attempts of its own.
C25_EndsWithinBudget == []WithinBudget /\ <>FetchEnded

\* fetch has ended after every request it may make: with retries and
\* max_redirects both positive, each URL of the chain was requested
\* retries + 1 times.
C25_Witness ==
    /\ FetchEnded
    /\ config.retries >= 1
    /\ config.max_redirects >= 1
    /\ Len(Requests) = (config.max_redirects + 1) * (config.retries + 1)
    /\ \A u \in UrlsRequested : Cardinality(RequestsFor(u)) = config.retries + 1

====
